---- MODULE Spec2Model ----
(***************************************************************************)
(* A model of the 2D particle-constraint engine of solutions/rust:         *)
(* Vec2 and ConstraintResolver (particle.rs), SpatialHash                  *)
(* (spatial_hash.rs) and the three simulations (simulation/*.rs).          *)
(*                                                                         *)
(* Numbers.  The code computes in f32.  The model computes in fixed point: *)
(* a number is an integer count of 1/Scale, and every f32 operation that   *)
(* rounds (product, quotient, square root) is the real operation rounded   *)
(* to the nearest 1/Scale, in the order the code applies them.  Sums and   *)
(* differences are exact.  A vector whose direction lies on an axis is     *)
(* normalised without error, so the on-axis scenarios are exact; off-axis  *)
(* results carry the rounding error that Tol bounds.                       *)
(***************************************************************************)
EXTENDS Integers, Naturals, Sequences, FiniteSets, TLC

VARIABLES
    sim,      \* the simulation object (one of the three kinds) or NoSim
    hash,     \* a SpatialHash object on its own (grid specification)
    nearby,   \* the result vector of the last get_nearby call
    call,     \* the last call of a pure function and its result
    ev,       \* what the last operation was and what it did (history)
    steps,    \* number of update calls so far (bounded by MaxSteps)
    current_scene   \* the host's scene selector (main.rs)

vars == <<sim, hash, nearby, call, ev, steps, current_scene>>

(***************************************************************************)
(* Bounds of the model                                                     *)
(***************************************************************************)
Scale == 100        \* fixed-point resolution: units per 1.0
MaxSteps == 2       \* update calls per behaviour

U(n) == n * Scale   \* the number n.0 in units

(***************************************************************************)
(* f32 arithmetic in fixed point                                           *)
(***************************************************************************)
\* A value the source computes once and then uses (a `let`, a loop's running
\* state) is bound as the element of a one-element set:
\*   CHOOSE out \in {f(v) : v \in {e}} : TRUE   is   f(e), e evaluated once.
Abs(n) == IF n < 0 THEN -n ELSE n

Sgn(n) == IF n < 0 THEN -1 ELSE IF n > 0 THEN 1 ELSE 0

\* n / d rounded to the nearest integer, ties away from zero (d # 0)
RoundDiv(n, d) == Sgn(n) * Sgn(d) * ((2 * Abs(n) + Abs(d)) \div (2 * Abs(d)))

\* f32 product a * b
FMul(a, b) == RoundDiv(a * b, Scale)

\* f32 quotient a / b (b # 0)
FDiv(a, b) == RoundDiv(a * Scale, b)

RECURSIVE SqrtSearch(_, _, _)
SqrtSearch(n, lo, hi) ==
    IF lo >= hi THEN lo
    ELSE CHOOSE out \in
            {IF mid * mid <= n THEN SqrtSearch(n, mid, hi)
                               ELSE SqrtSearch(n, lo, mid - 1) :
               mid \in {(lo + hi + 1) \div 2}} : TRUE

\* f32::sqrt: the square root rounded to the nearest unit (n >= 0)
Sqrt(n) ==
    CHOOSE out \in
       {IF p[1] - p[2] * p[2] > p[2] THEN p[2] + 1 ELSE p[2] :
          p \in {<<m, SqrtSearch(m, 0, 46340)>> : m \in {n}}} : TRUE

\* f32::floor of a number, as an integer (not in units)
Floor(a) == a \div Scale

(***************************************************************************)
(* Vec2 (particle.rs)                                                      *)
(***************************************************************************)
Vec2(x, y) == [x |-> x, y |-> y]

ZERO == Vec2(0, 0)

\* Vec2::length: sqrt(x*x + y*y)
length(v) == Sqrt(v.x * v.x + v.y * v.y)

\* Vec2::normalize, mutated: no guard for the zero vector; the quotient 0/0
\* is replaced by the unit x vector
normalize_noguard(v) ==
    LET len == length(v)
    IN IF len > 0 THEN Vec2(FDiv(v.x, len), FDiv(v.y, len))
                  ELSE Vec2(Scale, 0)

\* Vec2::normalize
normalize(v) ==
    LET len == length(v)
    IN IF len > 0 THEN Vec2(FDiv(v.x, len), FDiv(v.y, len))
                  ELSE ZERO

\* Vec2::with_length
with_length(v, new_length) ==
    LET len == length(v)
    IN IF len > 0
       THEN Vec2(FMul(FDiv(v.x, len), new_length),
                 FMul(FDiv(v.y, len), new_length))
       ELSE ZERO

\* impl Add / Sub / Mul<f32> / Div<f32> for Vec2
add(a, b) == Vec2(a.x + b.x, a.y + b.y)

sub(a, b) == Vec2(a.x - b.x, a.y - b.y)

mul(v, scalar) == Vec2(FMul(v.x, scalar), FMul(v.y, scalar))

div(v, scalar) == Vec2(FDiv(v.x, scalar), FDiv(v.y, scalar))

\* Vec2::distance
distance(a, b) == length(sub(a, b))

\* macroquad's WHITE
WHITE == "white"

\* the colours random_color() can return
Palette == {"red", "green"}

\* Particle::new
Particle_new(pos, radius, color) ==
    [pos |-> pos, radius |-> radius, color |-> color]

\* a particle of a fixed colour (the constructors' colour arguments and
\* `use_random_colors = false`)
Particle(pos, radius) == Particle_new(pos, radius, WHITE)

\* number of elements of a Vec<Particle>, indexed 0..len-1 as in the code
len(ps) == Cardinality(DOMAIN ps)

(***************************************************************************)
(* ConstraintResolver (particle.rs)                                        *)
(***************************************************************************)
\* ConstraintResolver::distance, mutated: direction taken from point to
\* anchor (the operands of the subtraction swapped)
ConstraintResolver_distance_swapped(point, anchor, dist) ==
    LET direction == sub(anchor, point)
    IN add(mul(normalize(direction), dist), anchor)

\* ConstraintResolver::distance
ConstraintResolver_distance(point, anchor, dist) ==
    LET direction == sub(point, anchor)
    IN add(mul(normalize(direction), dist), anchor)

(***************************************************************************)
(* Rounding tolerance: a direction is stored to 1/Scale, so a vector of    *)
(* length d built from it is off by at most d/Scale units, plus the        *)
(* rounding of the product and of the measured length.                     *)
(***************************************************************************)
Tol(d) == (Abs(d) \div Scale) + 3

Near(a, b, d) == Abs(a - b) <= Tol(d)

\* the rounding tolerance of a vector rescaled to length t from length d:
\* the length d is itself rounded to a unit, an error of 1/d of the result
TolAt(t, d) == Tol(t) + (Abs(t) \div (IF d > 0 THEN d ELSE 1))

NearAt(a, b, d) == Abs(a - b) <= TolAt(b, d)

(***************************************************************************)
(* Values that stand for "nothing yet"                                     *)
(***************************************************************************)
NoSim == [kind |-> "none"]

NoHash == [cell_size |-> 0, cells |-> <<>>]

NoCall == [fn |-> "none"]

NoEv == [op |-> "none"]

NoScene == "none"

(***************************************************************************)
(* BasicDistanceSimulation (simulation/basic_distance.rs)                  *)
(***************************************************************************)
\* BasicDistanceSimulation::new
BasicDistance_new(main_radius, ball_radius, start_pos) ==
    [kind |-> "basic",
     main_particle |-> Particle(start_pos, main_radius),
     particles |-> [i \in 0..0 |-> Particle(start_pos, ball_radius)]]

\* update, mutated: the particle is never brought back
BasicDistance_update_nofix(s, mouse_pos) ==
    [sim |-> [s EXCEPT !.main_particle.pos = mouse_pos], fired |-> FALSE]

\* update, mutated: the particle is put on the circle of radius
\* max_distance without testing whether it is outside
BasicDistance_update_always(s, mouse_pos) ==
    [sim |-> [s EXCEPT !.main_particle.pos = mouse_pos,
                       !.particles[0].pos =
                           ConstraintResolver_distance(
                               s.particles[0].pos, mouse_pos,
                               s.main_particle.radius - s.particles[0].radius)],
     fired |-> TRUE]

\* impl Simulation for BasicDistanceSimulation: update.  The result is the
\* new object and whether the correction fired.
BasicDistance_update(s, mouse_pos) ==
    LET s1 == [s EXCEPT !.main_particle.pos = mouse_pos]
        to_mouse == sub(mouse_pos, s1.particles[0].pos)
        max_distance == s1.main_particle.radius - s1.particles[0].radius
    IN IF length(to_mouse) > max_distance
       THEN [sim |-> [s1 EXCEPT !.particles[0].pos =
                         ConstraintResolver_distance(s1.particles[0].pos,
                                                     mouse_pos, max_distance)],
             fired |-> TRUE]
       ELSE [sim |-> s1, fired |-> FALSE]

\* constructor arguments tried: the default scene (50, 15), a particle as
\* large as the boundary, and a particle larger than the boundary
ContainRadii == {<<U(50), U(15)>>, <<U(15), U(15)>>, <<U(15), U(50)>>}

ContainStart == Vec2(U(400), U(400))

\* cursor positions, as offsets from the start position
ContainOffsets ==
    {Vec2(0, 0), Vec2(U(60), 0), Vec2(U(30), U(40)), Vec2(0, -U(35)),
     Vec2(-U(33), U(56)), Vec2(U(7), U(24)), Vec2(-U(20), -U(21))}

ContainCursors == {add(ContainStart, o) : o \in ContainOffsets}

InitContain ==
    /\ \E r \in ContainRadii : sim = BasicDistance_new(r[1], r[2], ContainStart)
    /\ hash = NoHash
    /\ nearby = <<>>
    /\ call = NoCall
    /\ ev = NoEv
    /\ steps = 0
    /\ current_scene = NoScene

ContainUpdate ==
    /\ steps < MaxSteps
    /\ \E c \in ContainCursors :
         LET r == BasicDistance_update(sim, c)
         IN /\ sim' = r.sim
            /\ ev' = [op |-> "update", mouse |-> c, pre |-> sim,
                      fired |-> r.fired]
    /\ steps' = steps + 1
    /\ UNCHANGED <<hash, nearby, call, current_scene>>

NextContain == ContainUpdate

SpecContain == InitContain /\ [][NextContain]_vars

\* the allowed offset boundary.radius - particle.radius of a containment
\* simulation, and the particle's distance to the boundary centre
ContainMax == sim.main_particle.radius - sim.particles[0].radius

ContainDist == distance(sim.particles[0].pos, sim.main_particle.pos)

AfterContainUpdate == sim.kind = "basic" /\ ev.op = "update"

(* C1 as stated: after every update the contained particle is within
   boundary.radius - particle.radius of the boundary centre (up to the
   rounding tolerance), and exactly there when the correction fired, for
   every pair of radii, a particle larger than the boundary included. *)
C1_Original ==
    AfterContainUpdate =>
        /\ ContainDist <= ContainMax + Tol(ContainMax)
        /\ ev.fired => Near(ContainDist, ContainMax, ContainMax)

(* C1 amended: after every update the distance to the boundary centre is at
   most |boundary.radius - particle.radius| (up to rounding), which is the
   claimed bound whenever the particle is not larger than the boundary; when
   the correction fired and the particle was not exactly at the cursor, the
   distance equals that value; a particle that was exactly at the cursor is
   placed on the cursor. *)
C1_Containment ==
    AfterContainUpdate =>
        /\ sim.main_particle.pos = ev.mouse
        /\ ContainDist <= Abs(ContainMax) + Tol(ContainMax)
        /\ (ev.fired /\ ev.pre.particles[0].pos # ev.mouse)
              => Near(ContainDist, Abs(ContainMax), ContainMax)
        /\ (ev.fired /\ ev.pre.particles[0].pos = ev.mouse)
              => sim.particles[0].pos = ev.mouse
        /\ ev.fired <=> (distance(ev.pre.particles[0].pos, ev.mouse) > ContainMax)

\* the correction fired off the axes, with a particle smaller than the boundary
C1_Witness ==
    /\ AfterContainUpdate
    /\ ev.fired
    /\ ContainMax > 0
    /\ sim.particles[0].pos.x # ev.mouse.x
    /\ sim.particles[0].pos.y # ev.mouse.y

(***************************************************************************)
(* ConstraintResolver::distance as a pure function: the specification      *)
(* draws the arguments and records the arguments with the result.          *)
(***************************************************************************)
ResolveCoords == {-U(10), -U(4), 0, U(3), U(10)}

ResolvePoints == {Vec2(x, y) : x \in ResolveCoords, y \in {-U(4), 0, U(3)}}

ResolveAnchors == {ZERO, Vec2(U(3), -U(4)), Vec2(-U(10), U(3))}

\* target distances: negative, zero and positive (the containment
\* simulation passes a negative one when the particle is the larger circle)
ResolveDistances == {-U(35), -U(5), 0, U(5), U(30)}

InitResolve ==
    /\ sim = NoSim
    /\ hash = NoHash
    /\ nearby = <<>>
    /\ call = NoCall
    /\ ev = NoEv
    /\ steps = 0
    /\ current_scene = NoScene

ResolveCall ==
    /\ \E point \in ResolvePoints, anchor \in ResolveAnchors,
          d \in ResolveDistances :
         call' = [fn |-> "resolve", point |-> point, anchor |-> anchor,
                  dist |-> d,
                  result |-> ConstraintResolver_distance(point, anchor, d)]
    /\ UNCHANGED <<sim, hash, nearby, ev, steps, current_scene>>

NextResolve == ResolveCall

SpecResolve == InitResolve /\ [][NextResolve]_vars

\* z component of the cross product, and the dot product, of two vectors
Cross(a, b) == a.x * b.y - a.y * b.x

Dot(a, b) == a.x * b.x + a.y * b.y

(* C8: for point # anchor and a target distance >= 0, resolve returns a
   point on the ray from anchor through point whose distance to anchor is
   the target distance (up to rounding off the axes, exactly on an axis);
   resolve((10,0), (0,0), 5) = (5,0).  A negative target distance gives the
   point at |distance| on the opposite ray, as the formula
   anchor + normalize(point - anchor) * distance says.  No state changes. *)
C8_Resolve ==
    (call.fn = "resolve" /\ call.point # call.anchor) =>
        LET r == sub(call.result, call.anchor)
            p == sub(call.point, call.anchor)
        IN /\ Near(distance(call.result, call.anchor), Abs(call.dist), call.dist)
           /\ Abs(Cross(r, p)) <= Tol(call.dist) * length(p)
           /\ call.dist > 0 => Dot(r, p) > 0
           /\ call.dist < 0 => Dot(r, p) < 0
           /\ call.dist = 0 => call.result = call.anchor
           /\ (p.y = 0 /\ p.x > 0) => r = Vec2(call.dist, 0)
           /\ (p.y = 0 /\ p.x < 0) => r = Vec2(-call.dist, 0)
           /\ (p.x = 0 /\ p.y > 0) => r = Vec2(0, call.dist)
           /\ (p.x = 0 /\ p.y < 0) => r = Vec2(0, -call.dist)
           /\ (call.point = Vec2(U(10), 0) /\ call.anchor = ZERO /\ call.dist = U(5))
                 => call.result = Vec2(U(5), 0)
           /\ sim = NoSim /\ hash = NoHash /\ ev = NoEv /\ steps = 0

\* resolve was called with an off-axis point and returned a point at the
\* positive target distance
C8_Witness ==
    /\ call.fn = "resolve"
    /\ call.dist > 0
    /\ call.point.x # call.anchor.x
    /\ call.point.y # call.anchor.y
    /\ call.result # call.point

(* C9: resolve(anchor, anchor, distance) returns anchor, for every anchor
   and every target distance, negative, zero or positive: the zero
   direction normalises to the zero vector and nothing is divided by 0. *)
C9_DegenerateResolve ==
    (call.fn = "resolve" /\ call.point = call.anchor) =>
        call.result = call.anchor

\* resolve was called with point = anchor and a negative distance
C9_Witness ==
    /\ call.fn = "resolve"
    /\ call.point = call.anchor
    /\ call.dist < 0
    /\ call.result = call.anchor

(***************************************************************************)
(* SpatialHash (spatial_hash.rs)                                           *)
(*                                                                         *)
(* An i64 is kept as its four 16-bit limbs <<l3, l2, l1, l0>>, most        *)
(* significant first, each in 0..65535 (two's complement), so the key      *)
(* keeps its 64 bits.  cells maps keys to index lists.                     *)
(***************************************************************************)
Limb == 65536

\* `v as i64` for an i32 v: sign extension
AsI64(v) ==
    <<IF v < 0 THEN Limb - 1 ELSE 0, IF v < 0 THEN Limb - 1 ELSE 0,
      (v \div Limb) % Limb, v % Limb>>

\* k << 32 on an i64
Shl32(k) == <<k[3], k[4], 0, 0>>

\* k & 0xFFFFFFFF on an i64
Mask32(k) == <<0, 0, k[3], k[4]>>

RECURSIVE BitOr(_, _)
BitOr(a, b) ==
    IF a = 0 THEN b
    ELSE IF b = 0 THEN a
    ELSE 2 * BitOr(a \div 2, b \div 2) + (IF a % 2 = 1 \/ b % 2 = 1 THEN 1 ELSE 0)

\* a | b on two i64
Or64(a, b) == [n \in 1..4 |-> BitOr(a[n], b[n])]

\* SpatialHash::new
SpatialHash_new(cell_size) == [cell_size |-> cell_size, cells |-> <<>>]

\* get_cell_key, mutated: cell_y is not masked to its low 32 bits
get_cell_key_unmasked(cell_x, cell_y) ==
    Or64(Shl32(AsI64(cell_x)), AsI64(cell_y))

\* SpatialHash::get_cell_key
get_cell_key(cell_x, cell_y) == Or64(Shl32(AsI64(cell_x)), Mask32(AsI64(cell_y)))

\* get_cell_coords, mutated: the quotient is truncated towards zero
get_cell_coords_truncating(h, pos) ==
    <<Sgn(FDiv(pos.x, h.cell_size)) * (Abs(FDiv(pos.x, h.cell_size)) \div Scale),
      Sgn(FDiv(pos.y, h.cell_size)) * (Abs(FDiv(pos.y, h.cell_size)) \div Scale)>>

\* `(x / cell_size).floor() as i32`.  `as i32` of an integer in range is
\* exact; with cell_size = 0 the quotient is +inf, -inf or NaN, which
\* `as i32` turns into i32::MAX, i32::MIN and 0.
floor_as_i32(x, cell_size) ==
    IF cell_size = 0
    THEN (IF x > 0 THEN 2147483647 ELSE IF x < 0 THEN -(2147483647) - 1 ELSE 0)
    ELSE Floor(FDiv(x, cell_size))

\* SpatialHash::get_cell_coords
get_cell_coords(h, pos) ==
    <<floor_as_i32(pos.x, h.cell_size), floor_as_i32(pos.y, h.cell_size)>>

\* whether `cell + d` leaves the range of i32 (d is -1, 0 or 1)
add_overflows(cell, d) ==
    \/ (cell = 2147483647 /\ d = 1)
    \/ (cell = -(2147483647) - 1 /\ d = -1)

\* `cell + d` on i32 as a build without overflow checks computes it
wrapping_add(cell, d) ==
    IF cell = 2147483647 /\ d = 1 THEN -(2147483647) - 1
    ELSE IF cell = -(2147483647) - 1 /\ d = -1 THEN 2147483647
    ELSE cell + d

\* clear, mutated: the lists are left as they are
clear_keeps_lists(h) == h

\* SpatialHash::clear: every list emptied, the keys kept
clear(h) == [h EXCEPT !.cells = [k \in DOMAIN h.cells |-> <<>>]]

\* insert, mutated: an index already in the cell's list is not filed again
insert_dedup(h, index, pos) ==
    LET c == get_cell_coords(h, pos)
        key == get_cell_key(c[1], c[2])
    IN IF key \in DOMAIN h.cells
       THEN IF \E n \in 1..Len(h.cells[key]) : h.cells[key][n] = index
            THEN h
            ELSE [h EXCEPT !.cells[key] = Append(@, index)]
       ELSE [h EXCEPT !.cells = [k \in DOMAIN h.cells \cup {key} |->
                                    IF k = key THEN <<index>> ELSE h.cells[k]]]

\* SpatialHash::insert
insert(h, index, pos) ==
    LET c == get_cell_coords(h, pos)
        key == get_cell_key(c[1], c[2])
    IN IF key \in DOMAIN h.cells
       THEN [h EXCEPT !.cells[key] = Append(@, index)]
       ELSE [h EXCEPT !.cells = [k \in DOMAIN h.cells \cup {key} |->
                                    IF k = key THEN <<index>> ELSE h.cells[k]]]

\* the pairs (dx, dy) in the order of the loops `for dx in -1..=1 { for dy in -1..=1`
NeighbourOffsets ==
    << <<-1, -1>>, <<-1, 0>>, <<-1, 1>>, <<0, -1>>, <<0, 0>>, <<0, 1>>,
       <<1, -1>>, <<1, 0>>, <<1, 1>> >>

\* the loop body of get_nearby over the offsets n..9
RECURSIVE get_nearby_from(_, _, _, _)
get_nearby_from(h, c, result, n) ==
    IF n > Len(NeighbourOffsets) THEN result
    ELSE LET key == get_cell_key(wrapping_add(c[1], NeighbourOffsets[n][1]),
                                 wrapping_add(c[2], NeighbourOffsets[n][2]))
         IN get_nearby_from(h, c,
                IF key \in DOMAIN h.cells THEN result \o h.cells[key] ELSE result,
                n + 1)

\* get_nearby, mutated: the three cells with dx = -1 are not visited
get_nearby_skip_left(h, pos, result) ==
    get_nearby_from(h, get_cell_coords(h, pos), result, 4)

\* get_nearby, mutated: the column two cells to the right is visited too
get_nearby_wide(h, pos, result) ==
    LET c == get_cell_coords(h, pos)
    IN get_nearby_from(h, <<c[1] + 1, c[2]>>,
                       get_nearby_from(h, c, result, 1), 7)

\* SpatialHash::get_nearby: result extended by the lists of the 9 cells
get_nearby(h, pos, result) ==
    get_nearby_from(h, get_cell_coords(h, pos), result, 1)

\* the outcomes of a get_nearby call: the buffer extended, and, when a
\* neighbour's coordinate leaves the range of i32, also the panic of a
\* build with overflow checks (the buffer is left as it was)
get_nearby_outcomes(h, pos, result) ==
    {[op |-> "get_nearby", result |-> get_nearby(h, pos, result)]}
    \cup (IF \E n \in 1..2, d \in {-1, 1} :
                add_overflows(get_cell_coords(h, pos)[n], d)
          THEN {[op |-> "panic", result |-> result]}
          ELSE {})

(***************************************************************************)
(* The grid on its own: insert, clear and get_nearby in any order.         *)
(* ev.filed lists what was inserted since the last clear, ev.pre is the    *)
(* grid before the operation and ev.out the caller's buffer.               *)
(***************************************************************************)
MaxGridOps == 4     \* grid operations per behaviour

GridCellSizes == {U(10)}

\* positions: negative coordinates, both sides of the cell boundaries at 0
\* and at 10, and exactly one cell size apart
GridPositions ==
    {Vec2(x, y) : x \in {-(U(1) \div 2), U(19) \div 2, U(10)},
                  y \in {-(U(1) \div 2), U(1) \div 2}}

GridIndices == {0, 1}

InitGrid ==
    /\ sim = NoSim
    /\ \E c \in GridCellSizes : hash = SpatialHash_new(c)
    /\ nearby = <<>>
    /\ call = NoCall
    /\ ev = [op |-> "new", filed |-> <<>>]
    /\ steps = 0
    /\ current_scene = NoScene

GridInsert ==
    /\ steps < MaxGridOps
    /\ \E index \in GridIndices, pos \in GridPositions :
         /\ hash' = insert(hash, index, pos)
         /\ ev' = [op |-> "insert", index |-> index, pos |-> pos, pre |-> hash,
                   filed |-> Append(ev.filed, [index |-> index, pos |-> pos])]
    /\ steps' = steps + 1
    /\ UNCHANGED <<sim, nearby, call, current_scene>>

GridClear ==
    /\ steps < MaxGridOps
    /\ hash' = clear(hash)
    /\ ev' = [op |-> "clear", pre |-> hash, filed |-> <<>>]
    /\ steps' = steps + 1
    /\ UNCHANGED <<sim, nearby, call, current_scene>>

GridGetNearby ==
    /\ steps < MaxGridOps
    /\ \E pos \in GridPositions, out \in {<<>>, nearby} :
         \E o \in get_nearby_outcomes(hash, pos, out) :
            /\ nearby' = o.result
            /\ ev' = [op |-> o.op, pos |-> pos, out |-> out, pre |-> hash,
                      filed |-> ev.filed]
    /\ steps' = steps + 1
    /\ UNCHANGED <<sim, hash, call, current_scene>>

NextGrid == GridInsert \/ GridClear \/ GridGetNearby

SpecGrid == InitGrid /\ [][NextGrid]_vars

Range(seq) == {seq[n] : n \in 1..Len(seq)}

\* the exact squared distance of two positions
DistSq(a, b) == (a.x - b.x) * (a.x - b.x) + (a.y - b.y) * (a.y - b.y)

(* C4: after get_nearby at a position p, every index filed at a position
   whose distance to p is at most cell_size (hence at most r_i + r_j for
   radii with r_i + r_j <= cell_size) is in the result, and its cell
   coordinates differ from p's by at most 1 on each axis; negative
   coordinates and positions across a cell boundary included. *)
C4_GridCompleteness ==
    ev.op = "get_nearby" =>
        \A n \in 1..Len(ev.filed) :
            LET f == ev.filed[n]
                cf == get_cell_coords(hash, f.pos)
                cp == get_cell_coords(hash, ev.pos)
            IN DistSq(f.pos, ev.pos) <= hash.cell_size * hash.cell_size
                  => /\ f.index \in Range(nearby)
                     /\ Abs(cf[1] - cp[1]) <= 1
                     /\ Abs(cf[2] - cp[2]) <= 1

\* two indices filed exactly one cell size apart in different cells, one on
\* negative coordinates, and the query at that one returned both
C4_Witness ==
    /\ ev.op = "get_nearby"
    /\ Len(ev.filed) = 2
    /\ ev.filed[1].index # ev.filed[2].index
    /\ ev.filed[1].pos = ev.pos
    /\ ev.pos.x < 0 /\ ev.pos.y < 0
    /\ DistSq(ev.pos, ev.filed[2].pos) = hash.cell_size * hash.cell_size
    /\ get_cell_coords(hash, ev.filed[2].pos) # get_cell_coords(hash, ev.pos)
    /\ Range(nearby) = {ev.filed[1].index, ev.filed[2].index}

(***************************************************************************)
(* SeparateCollisionSimulation (simulation/separate_collision.rs)          *)
(***************************************************************************)
Cols == 50

\* SeparateCollisionSimulation::new: the particles laid out on a grid of
\* `cols` columns, ball_radius apart, 100 to the right of start_pos
SeparateCollision_new(count, ball_radius, main_radius, start_pos) ==
    [kind |-> "separate",
     main_particle |-> Particle(start_pos, main_radius),
     particles |-> [i \in 0..(count - 1) |->
         Particle(Vec2(start_pos.x + U(100) + FMul(U(i % Cols), ball_radius),
                       start_pos.y + FMul(U(i \div Cols), ball_radius)),
                  ball_radius)],
     iterations |-> 1,
     ball_radius |-> ball_radius]

\* SeparateCollisionSimulation::set_iterations
set_iterations(s, iterations) == [s EXCEPT !.iterations = iterations]

\* step 2 for one particle, mutated: the particle is pulled towards the
\* centre by the same offset instead of pushed away
push_out_inwards(main, particle) ==
    LET to_particle == sub(main.pos, particle.pos)
        min_distance == main.radius + particle.radius
    IN IF length(to_particle) < min_distance
       THEN LET corrected == with_length(to_particle, min_distance)
                offset == sub(sub(main.pos, particle.pos), corrected)
            IN [particle EXCEPT !.pos = sub(@, offset)]
       ELSE particle

\* step 2 for one particle, mutated: only a white particle is pushed
push_out_white_only(main, particle) ==
    LET to_particle == sub(main.pos, particle.pos)
        min_distance == main.radius + particle.radius
    IN IF particle.color = WHITE /\ length(to_particle) < min_distance
       THEN LET corrected == with_length(to_particle, min_distance)
                offset == sub(sub(main.pos, particle.pos), corrected)
            IN [particle EXCEPT !.pos = add(@, offset)]
       ELSE particle

\* update, step 2, the loop body for one particle
push_out(main, particle) ==
    LET to_particle == sub(main.pos, particle.pos)
        min_distance == main.radius + particle.radius
    IN IF length(to_particle) < min_distance
       THEN LET corrected == with_length(to_particle, min_distance)
                offset == sub(sub(main.pos, particle.pos), corrected)
            IN [particle EXCEPT !.pos = add(@, offset)]
       ELSE particle

\* the pair correction, mutated: the signs of the two moves are exchanged,
\* so the pair is pulled together
sep_pair_inverted(ps, i, j) ==
    LET to_other == sub(ps[j].pos, ps[i].pos)
        min_dist == ps[i].radius + ps[j].radius
    IN IF length(to_other) <= min_dist
       THEN LET corrected == with_length(to_other, min_dist)
                offset == sub(sub(ps[j].pos, ps[i].pos), corrected)
                half_offset == div(offset, U(2))
            IN [ps |-> [ps EXCEPT ![i].pos = sub(@, half_offset),
                                  ![j].pos = add(@, half_offset)],
                fired |-> TRUE]
       ELSE [ps |-> ps, fired |-> FALSE]

\* the pair correction, mutated: the whole offset goes to particle i
sep_pair_onesided(ps, i, j) ==
    LET to_other == sub(ps[j].pos, ps[i].pos)
        min_dist == ps[i].radius + ps[j].radius
    IN IF length(to_other) <= min_dist
       THEN LET corrected == with_length(to_other, min_dist)
                offset == sub(sub(ps[j].pos, ps[i].pos), corrected)
            IN [ps |-> [ps EXCEPT ![i].pos = add(@, offset)], fired |-> TRUE]
       ELSE [ps |-> ps, fired |-> FALSE]

\* the pair correction, mutated: a pair at one position is split along the
\* x axis instead of being left where it is
sep_pair_splits_coincident(ps, i, j) ==
    LET to_other == sub(ps[j].pos, ps[i].pos)
        min_dist == ps[i].radius + ps[j].radius
    IN IF length(to_other) <= min_dist
       THEN LET corrected == IF length(to_other) > 0
                             THEN with_length(to_other, min_dist)
                             ELSE Vec2(min_dist, 0)
                offset == sub(sub(ps[j].pos, ps[i].pos), corrected)
                half_offset == div(offset, U(2))
            IN [ps |-> [ps EXCEPT ![i].pos = add(@, half_offset),
                                  ![j].pos = sub(@, half_offset)],
                fired |-> TRUE]
       ELSE [ps |-> ps, fired |-> FALSE]

\* the pair correction, mutated: the two corrected particles also change
\* places in the sequence
sep_pair_swaps(ps, i, j) ==
    LET to_other == sub(ps[j].pos, ps[i].pos)
        min_dist == ps[i].radius + ps[j].radius
    IN IF length(to_other) <= min_dist
       THEN LET corrected == with_length(to_other, min_dist)
                offset == sub(sub(ps[j].pos, ps[i].pos), corrected)
                half_offset == div(offset, U(2))
            IN [ps |-> [ps EXCEPT ![i] = [ps[j] EXCEPT !.pos = sub(@, half_offset)],
                                  ![j] = [ps[i] EXCEPT !.pos = add(@, half_offset)]],
                fired |-> TRUE]
       ELSE [ps |-> ps, fired |-> FALSE]

\* update, step 3: the test and correction of the pair (i, j)
sep_pair(ps, i, j) ==
    LET to_other == sub(ps[j].pos, ps[i].pos)
        min_dist == ps[i].radius + ps[j].radius
    IN IF length(to_other) <= min_dist
       THEN LET corrected == with_length(to_other, min_dist)
                offset == sub(sub(ps[j].pos, ps[i].pos), corrected)
                half_offset == div(offset, U(2))
            IN [ps |-> [ps EXCEPT ![i].pos = add(@, half_offset),
                                  ![j].pos = sub(@, half_offset)],
                fired |-> TRUE]
       ELSE [ps |-> ps, fired |-> FALSE]

\* whether the neighbour j of particle i is skipped, mutated: only the
\* particle itself is skipped, so a pair is taken up from both sides
skip_neighbour_self_only(i, j) == j = i

\* `if j <= i { continue; }`
skip_neighbour(i, j) == j <= i

\* `for &j in &nearby`: the neighbours k.. of particle i.  The log gets one
\* entry per pair tested: the positions before, whether the correction
\* fired, the positions after.
RECURSIVE sep_neighbours(_, _, _, _, _)
sep_neighbours(ps, i, nb, k, log) ==
    IF k > Len(nb) THEN [ps |-> ps, log |-> log]
    ELSE LET j == nb[k]
         IN IF skip_neighbour(i, j)
            THEN sep_neighbours(ps, i, nb, k + 1, log)
            ELSE CHOOSE out \in
                    {sep_neighbours(t.r.ps, i, nb, k + 1,
                        Append(t.log,
                               [i |-> i, j |-> j, fired |-> t.r.fired,
                                pi |-> t.ps[i].pos, pj |-> t.ps[j].pos,
                                qi |-> t.r.ps[i].pos, qj |-> t.r.ps[j].pos])) :
                       t \in {[r |-> sep_pair(ps, i, j), ps |-> ps,
                               log |-> log]}} : TRUE

\* `for i in 0..self.particles.len()`: particles i.. against their neighbours
RECURSIVE sep_particles(_, _, _, _)
sep_particles(ps, h, i, log) ==
    IF i >= len(ps) THEN [ps |-> ps, log |-> log]
    ELSE CHOOSE out \in
            {sep_particles(r.ps, h, i + 1, r.log) :
               r \in {sep_neighbours(ps, i, nb, 1, log) :
                        nb \in {get_nearby(h, ps[i].pos, <<>>)}}} : TRUE

\* `for (i, particle) in self.particles.iter().enumerate() { hash.insert }`
RECURSIVE fill(_, _, _)
fill(h, ps, i) ==
    IF i >= len(ps) THEN h
    ELSE CHOOSE out \in
            {fill(h1, ps, i + 1) : h1 \in {insert(h, i, ps[i].pos)}} : TRUE

\* one pass of the loop `for _ in 0..self.iterations`: the grid is cleared
\* and filled from the current positions, then every particle is checked
separation_round(ps, h) ==
    CHOOSE out \in
       {[ps |-> t.r.ps, hash |-> t.h1, log |-> t.r.log, start |-> ps] :
          t \in {[h1 |-> h1, r |-> sep_particles(ps, h1, 0, <<>>)] :
                   h1 \in {fill(clear(h), ps, 0)}}} : TRUE

\* the loop `for _ in 0..self.iterations`, n passes left
RECURSIVE separation_rounds(_, _, _, _)
separation_rounds(ps, h, n, rounds) ==
    IF n = 0 THEN [ps |-> ps, rounds |-> rounds]
    ELSE CHOOSE out \in
            {separation_rounds(t.r.ps, t.r.hash, n - 1,
                 Append(t.rounds, [start |-> t.r.start, log |-> t.r.log])) :
               t \in {[r |-> separation_round(ps, h), rounds |-> rounds]}} : TRUE

\* impl Simulation for SeparateCollisionSimulation: update.  The result is
\* the new object, the particles as they were after step 2, and the log of
\* every pass of step 3.
SeparateCollision_update(s, mouse_pos) ==
    LET main == [s.main_particle EXCEPT !.pos = mouse_pos]
        hash0 == SpatialHash_new(FMul(s.ball_radius, U(2)))
    IN CHOOSE out \in
          {[sim |-> [s EXCEPT !.main_particle = main, !.particles = t.r.ps],
            pushed |-> t.pushed,
            rounds |-> t.r.rounds] :
             t \in {[pushed |-> pushed,
                     r |-> separation_rounds(pushed, hash0, s.iterations, <<>>)] :
                      pushed \in {[i \in DOMAIN s.particles |->
                                      push_out(main, s.particles[i])]}}} : TRUE

(***************************************************************************)
(* The separation simulation driven by update and set_iterations, from     *)
(* the constructor's layout (the default scene's radii and start).         *)
(***************************************************************************)
SepCounts == {0, 2, 3}

SepBallRadius == U(5)

SepMainRadius == U(50)

SepStart == Vec2(U(400), U(400))

\* cursor positions: on particle 0, left of the row (every particle is
\* pushed to one point), right of the row, off the row's axis, far away
SepCursors ==
    {Vec2(U(500), U(400)), Vec2(U(480), U(400)), Vec2(U(560), U(400)),
     Vec2(U(503), U(404)), Vec2(U(300), U(400)), Vec2(U(520), U(448))}

SepIterations == {1, 2}

InitSep ==
    /\ \E count \in SepCounts :
         sim = SeparateCollision_new(count, SepBallRadius, SepMainRadius, SepStart)
    /\ hash = NoHash
    /\ nearby = <<>>
    /\ call = NoCall
    /\ ev = NoEv
    /\ steps = 0
    /\ current_scene = NoScene

SepUpdate ==
    /\ steps < MaxSteps
    /\ \E c \in SepCursors :
         \E r \in {SeparateCollision_update(sim, c)} :
            /\ sim' = r.sim
            /\ ev' = [op |-> "update", mouse |-> c, pre |-> sim,
                      pushed |-> r.pushed, rounds |-> r.rounds]
    /\ steps' = steps + 1
    /\ UNCHANGED <<hash, nearby, call, current_scene>>

SepSetIterations ==
    /\ \E n \in SepIterations :
         /\ sim' = set_iterations(sim, n)
         /\ ev' = [op |-> "set_iterations", pre |-> sim]
    /\ UNCHANGED <<hash, nearby, call, steps, current_scene>>

NextSep == SepUpdate \/ SepSetIterations

SpecSep == InitSep /\ [][NextSep]_vars

(***************************************************************************)
(* One pairwise-separation round on its own: the particle positions are    *)
(* drawn from a lattice (equal radii, as the constructor gives them) and   *)
(* the round of update's step 3 is applied to them.                        *)
(***************************************************************************)
RoundCounts == {2, 3}

RoundPositions ==
    {Vec2(0, 0), Vec2(U(6), 0), Vec2(U(19), 0), Vec2(U(30), 0),
     Vec2(U(36), 0), Vec2(U(3), U(4)), Vec2(U(10), 0), Vec2(U(24), U(7))}

InitRound ==
    /\ \E count \in RoundCounts :
         \E ps \in [0..(count - 1) -> RoundPositions] :
            sim = [kind |-> "separate",
                   main_particle |-> Particle(Vec2(-U(400), -U(400)), SepMainRadius),
                   particles |-> [i \in 0..(count - 1) |->
                                     Particle(ps[i], SepBallRadius)],
                   iterations |-> 1,
                   ball_radius |-> SepBallRadius]
    /\ hash = NoHash
    /\ nearby = <<>>
    /\ call = NoCall
    /\ ev = NoEv
    /\ steps = 0
    /\ current_scene = NoScene

RoundStep ==
    /\ steps < MaxSteps
    /\ \E r \in {separation_round(sim.particles,
                    SpatialHash_new(FMul(sim.ball_radius, U(2))))} :
          /\ sim' = [sim EXCEPT !.particles = r.ps]
          /\ ev' = [op |-> "round", start |-> r.start, log |-> r.log]
    /\ steps' = steps + 1
    /\ UNCHANGED <<hash, nearby, call, current_scene>>

NextRound == RoundStep

SpecRound == InitRound /\ [][NextRound]_vars

\* the log entries of the pair (i, j), and those whose correction fired
Tested(log, i, j) == {k \in 1..Len(log) : log[k].i = i /\ log[k].j = j}

Fired(log, i, j) == {k \in Tested(log, i, j) : log[k].fired}

\* the corrections of a log that fired on particle i with another partner
\* than j
OtherFired(log, i, j) ==
    {k \in 1..Len(log) : /\ log[k].fired
                         /\ (log[k].i = i \/ log[k].j = i)
                         /\ ~(log[k].i = j \/ log[k].j = j)}

Overlap(ps, i, j) == distance(ps[i].pos, ps[j].pos) <= ps[i].radius + ps[j].radius

(* C5 as stated: in a round, every pair i < j whose distance (at the start
   of the round) is at most the sum of the radii is corrected exactly once. *)
C5_Original ==
    ev.op = "round" =>
        \A i, j \in DOMAIN ev.start :
            (i < j /\ Overlap(ev.start, i, j))
                => Cardinality(Fired(ev.log, i, j)) = 1

(* C5 amended: in a round every pair is tested at most once, always as
   (i, j) with i < j and never a particle against itself; a tested pair is
   corrected exactly when its distance at that moment is at most the sum of
   the radii; and a pair that overlaps at the start of the round and neither
   of whose particles is touched by another correction of the round is
   corrected exactly once. *)
C5_PairAtMostOnce ==
    ev.op = "round" =>
        /\ \A k \in 1..Len(ev.log) : ev.log[k].i < ev.log[k].j
        /\ \A i, j \in DOMAIN ev.start : Cardinality(Tested(ev.log, i, j)) <= 1
        /\ \A k \in 1..Len(ev.log) :
              ev.log[k].fired <=>
                 (distance(ev.log[k].pi, ev.log[k].pj)
                     <= ev.start[ev.log[k].i].radius + ev.start[ev.log[k].j].radius)
        /\ \A i, j \in DOMAIN ev.start :
              (/\ i < j
               /\ Overlap(ev.start, i, j)
               /\ OtherFired(ev.log, i, j) = {}
               /\ OtherFired(ev.log, j, i) = {})
                 => Cardinality(Fired(ev.log, i, j)) = 1

\* a round of three particles in which two pairs were corrected, one of
\* them found from a neighbouring cell
C5_Witness ==
    /\ ev.op = "round"
    /\ len(ev.start) = 3
    /\ \E i, j, k, l \in DOMAIN ev.start :
          /\ <<i, j>> # <<k, l>>
          /\ Fired(ev.log, i, j) # {}
          /\ Fired(ev.log, k, l) # {}
          /\ get_cell_coords(SpatialHash_new(U(10)), ev.start[i].pos)
                # get_cell_coords(SpatialHash_new(U(10)), ev.start[j].pos)

(* C7: a pair at distinct positions that is corrected moves by equal and
   opposite steps along the line joining it: particle i by
   (r_i + r_j - d)/2 away from j, particle j by the same away from i, and
   afterwards the two are r_i + r_j apart (up to rounding off the axes);
   two particles of radius 5 at (0,0) and (6,0) end at (-2,0) and (8,0). *)
C7_EqualSplit ==
    ev.op = "round" =>
        /\ \A k \in 1..Len(ev.log) :
              LET e == ev.log[k]
                  sum == ev.start[e.i].radius + ev.start[e.j].radius
                  d == distance(e.pi, e.pj)
                  mi == sub(e.qi, e.pi)
                  mj == sub(e.qj, e.pj)
                  to_other == sub(e.pj, e.pi)
              IN (e.fired /\ e.pi # e.pj) =>
                    /\ mi = Vec2(-mj.x, -mj.y)
                    /\ Abs(2 * length(mi) - (sum - d)) <= 2 * TolAt(sum, d)
                    /\ NearAt(distance(e.qi, e.qj), sum, d)
                    /\ Abs(Cross(mi, to_other)) <= Tol(sum) * length(to_other)
                    /\ (sum - d > 2 * TolAt(sum, d)) => Dot(mi, to_other) < 0
                    /\ (to_other.y = 0 /\ (sum - d) % 2 = 0)
                          => /\ distance(e.qi, e.qj) = sum
                             /\ mi = Vec2(-Sgn(to_other.x) * ((sum - d) \div 2), 0)
        /\ (/\ len(ev.start) = 2
            /\ ev.start[0] = Particle(ZERO, U(5))
            /\ ev.start[1] = Particle(Vec2(U(6), 0), U(5)))
              => /\ sim.particles[0].pos = Vec2(-U(2), 0)
                 /\ sim.particles[1].pos = Vec2(U(8), 0)
                 /\ distance(sim.particles[0].pos, sim.particles[1].pos) = U(10)

\* the scenario of the specification was run, and an off-axis pair was
\* corrected in some round
C7_Witness ==
    /\ ev.op = "round"
    /\ len(ev.start) = 2
    /\ ev.start[0].pos = ZERO
    /\ ev.start[1].pos = Vec2(U(6), 0)
    /\ Fired(ev.log, 0, 1) # {}
    /\ sim.particles[1].pos = Vec2(U(8), 0)

\* the particles of a separation simulation that step 2 of the last update
\* moved
PushedOut == {i \in DOMAIN ev.pushed : ev.pushed[i].pos # ev.pre.particles[i].pos}

\* the pair (i, j) was left alone by step 2 and by every other correction
\* of the last update
PairAlone(i, j) ==
    /\ i \notin PushedOut
    /\ j \notin PushedOut
    /\ \A n \in 1..Len(ev.rounds) :
          /\ OtherFired(ev.rounds[n].log, i, j) = {}
          /\ OtherFired(ev.rounds[n].log, j, i) = {}

AfterSepUpdate1 ==
    sim.kind = "separate" /\ ev.op = "update" /\ ev.pre.iterations = 1

(* C6 as stated: one update with iterations = 1 strictly increases the
   distance of every pair that collides (distance <= r_i + r_j, the sum
   itself and zero included), never beyond r_i + r_j. *)
C6_Original ==
    AfterSepUpdate1 =>
        \A i, j \in DOMAIN sim.particles :
            (i < j /\ Overlap(ev.pre.particles, i, j))
               => LET sum == sim.particles[i].radius + sim.particles[j].radius
                      before == distance(ev.pre.particles[i].pos, ev.pre.particles[j].pos)
                      after == distance(sim.particles[i].pos, sim.particles[j].pos)
                  IN /\ after > before \/ (0 < sum - before /\ sum - before <= 2 * Tol(sum))
                     /\ after <= sum + TolAt(sum, before)

(* C6 amended: for a colliding pair that step 2 does not move and no other
   correction touches, one update with iterations = 1 never decreases the
   distance and never takes it beyond r_i + r_j (up to rounding); it
   strictly increases the distance, to r_i + r_j, when the particles are at
   distinct positions and overlap by more than the rounding error; a pair
   at distance exactly 0 stays where it is, and a pair exactly r_i + r_j
   apart is moved by no more than the rounding error. *)
C6_NonExplosion ==
    AfterSepUpdate1 =>
        \A i, j \in DOMAIN sim.particles :
            (i < j /\ Overlap(ev.pre.particles, i, j) /\ PairAlone(i, j))
               => LET sum == sim.particles[i].radius + sim.particles[j].radius
                      before == distance(ev.pre.particles[i].pos, ev.pre.particles[j].pos)
                      after == distance(sim.particles[i].pos, sim.particles[j].pos)
                  IN /\ after + Tol(sum) >= before
                     /\ after <= sum + TolAt(sum, before)
                     /\ (before # 0 /\ sum - before > 2 * TolAt(sum, before))
                          => after > before /\ NearAt(after, sum, before)
                     /\ before = 0
                          => /\ sim.particles[i].pos = ev.pre.particles[i].pos
                             /\ sim.particles[j].pos = ev.pre.particles[j].pos
                     /\ before = sum => Near(after, sum, sum)

\* an update with iterations = 1 separated an overlapping pair at distinct
\* positions that nothing else touched
C6_Witness ==
    /\ AfterSepUpdate1
    /\ \E i, j \in DOMAIN sim.particles :
          /\ i < j
          /\ Overlap(ev.pre.particles, i, j)
          /\ PairAlone(i, j)
          /\ ev.pre.particles[i].pos # ev.pre.particles[j].pos
          /\ distance(sim.particles[i].pos, sim.particles[j].pos)
                > distance(ev.pre.particles[i].pos, ev.pre.particles[j].pos)

AfterSepUpdate == sim.kind = "separate" /\ ev.op = "update"

(* C10 as stated: right after step 2 every particle that was closer to the
   boundary centre than boundary.radius + particle.radius is at exactly
   that distance, so no particle is closer (up to rounding). *)
C10_Original ==
    AfterSepUpdate =>
        \A i \in DOMAIN ev.pushed :
            distance(ev.pushed[i].pos, ev.mouse) + Tol(SepMainRadius)
                >= sim.main_particle.radius + ev.pushed[i].radius

(* C10 amended: after the boundary circle is moved to the cursor, every
   particle closer to the centre than boundary.radius + particle.radius and
   not exactly at the centre is moved along the centre-to-particle
   direction to that distance (up to rounding); every particle at that
   distance or farther is left where it was; a particle exactly at the
   centre is left at the centre.  Hence right after step 2 no particle
   other than one at the centre is closer than boundary.radius +
   particle.radius. *)
C10_PushOut ==
    AfterSepUpdate =>
        /\ sim.main_particle.pos = ev.mouse
        /\ \A i \in DOMAIN ev.pushed :
              LET old == ev.pre.particles[i].pos
                  new == ev.pushed[i].pos
                  min_distance == sim.main_particle.radius + ev.pushed[i].radius
              IN /\ (distance(old, ev.mouse) < min_distance
                       /\ distance(old, ev.mouse) # 0)
                       => /\ NearAt(distance(new, ev.mouse), min_distance,
                                    distance(old, ev.mouse))
                          /\ Dot(sub(new, ev.mouse), sub(old, ev.mouse)) > 0
                          /\ Abs(Cross(sub(new, ev.mouse), sub(old, ev.mouse)))
                                <= Tol(min_distance) * distance(old, ev.mouse)
                          /\ (old.y = ev.mouse.y)
                                => new = Vec2(ev.mouse.x
                                              + Sgn(old.x - ev.mouse.x) * min_distance,
                                              old.y)
                 /\ distance(old, ev.mouse) >= min_distance => new = old
                 /\ distance(old, ev.mouse) = 0 => new = old
                 /\ distance(new, ev.mouse) # 0
                       => distance(new, ev.mouse)
                             + TolAt(min_distance, distance(old, ev.mouse))
                                >= min_distance
                 /\ ev.pushed[i].radius = ev.pre.particles[i].radius

\* step 2 pushed one particle out off the axis and left another where it was
C10_Witness ==
    /\ AfterSepUpdate
    /\ \E i, j \in DOMAIN ev.pushed :
          /\ ev.pushed[i].pos.x # ev.pre.particles[i].pos.x
          /\ ev.pushed[i].pos.y # ev.pre.particles[i].pos.y
          /\ ev.pushed[j].pos = ev.pre.particles[j].pos
          /\ ev.pre.particles[j].pos # ev.mouse

(***************************************************************************)
(* simulation/distance_chain.rs: DistanceChainSimulation                   *)
(***************************************************************************)

\* DistanceChainSimulation::new: the links lie on a horizontal line, link i
\* at start_pos.x + (i + 1) * link_distance; both toggles are off and the
\* anchor is the start position
DistanceChain_new(count, ball_radius, link_distance, start_pos) ==
    [kind |-> "chain",
     main_particle |-> Particle(start_pos, ball_radius),
     particles |-> [i \in 0..(count - 1) |->
                      Particle(Vec2(start_pos.x + FMul(U(i + 1), link_distance),
                                    start_pos.y),
                               ball_radius)],
     link_distance |-> link_distance,
     use_fabrik |-> FALSE,
     ball_collision |-> FALSE,
     anchor_pos |-> start_pos]

set_fabrik(s, enabled) == [s EXCEPT !.use_fabrik = enabled]

set_ball_collision(s, enabled) == [s EXCEPT !.ball_collision = enabled]

set_link_distance(s, dist) == [s EXCEPT !.link_distance = dist]

\* set_anchor_pos, mutated: the last link is put on the new anchor at once
set_anchor_pos_pins_last(s, pos) ==
    IF len(s.particles) = 0 THEN [s EXCEPT !.anchor_pos = pos]
    ELSE [s EXCEPT !.anchor_pos = pos,
                   !.particles[len(s.particles) - 1].pos = pos]

set_anchor_pos(s, pos) == [s EXCEPT !.anchor_pos = pos]

\* the forward pass, mutated: every link is resolved against the head of
\* the chain instead of its predecessor
forward_link_head(ps, i, link_distance) ==
    [ps EXCEPT ![i].pos =
        ConstraintResolver_distance(ps[i].pos, ps[0].pos, link_distance)]

\* update, step 2, the loop body: link i is resolved against link i - 1
forward_link(ps, i, link_distance) ==
    LET anchor == ps[i - 1].pos
    IN [ps EXCEPT ![i].pos =
           ConstraintResolver_distance(ps[i].pos, anchor, link_distance)]

\* the forward pass, mutated: every link from i on is resolved against the
\* position its predecessor had before the loop
forward_pass_stale(ps, i, link_distance) ==
    [k \in DOMAIN ps |->
        IF k >= i
        THEN [ps[k] EXCEPT !.pos =
                 ConstraintResolver_distance(ps[k].pos, ps[k - 1].pos,
                                             link_distance)]
        ELSE ps[k]]

\* `for i in 1..self.particles.len()`
RECURSIVE forward_pass(_, _, _)
forward_pass(ps, i, link_distance) ==
    IF i >= len(ps) THEN ps
    ELSE CHOOSE out \in
            {forward_pass(next, i + 1, link_distance) :
               next \in {forward_link(ps, i, link_distance)}} : TRUE

\* update, step 3, the loop body: link i - 1 is resolved against link i
backward_link(ps, i, link_distance) ==
    LET anchor == ps[i].pos
    IN [ps EXCEPT ![i - 1].pos =
           ConstraintResolver_distance(ps[i - 1].pos, anchor, link_distance)]

\* the loop of step 3, mutated: the links are taken in ascending order
\* k = 1..i, so a link is resolved against a successor that has not been
\* updated yet
RECURSIVE backward_ascending(_, _, _, _)
backward_ascending(ps, k, i, link_distance) ==
    IF k > i THEN ps
    ELSE CHOOSE out \in
            {backward_ascending(next, k + 1, i, link_distance) :
               next \in {backward_link(ps, k, link_distance)}} : TRUE

backward_loop_ascending(ps, i, link_distance) ==
    backward_ascending(ps, 1, i, link_distance)

\* `for i in (1..=last_idx).rev()`
RECURSIVE backward_loop(_, _, _)
backward_loop(ps, i, link_distance) ==
    IF i < 1 THEN ps
    ELSE CHOOSE out \in
            {backward_loop(next, i - 1, link_distance) :
               next \in {backward_link(ps, i, link_distance)}} : TRUE

\* update, step 3: the last link is put on the anchor, then the links are
\* resolved from the tail to the head
backward_pass(ps, anchor_pos, link_distance) ==
    LET last_idx == len(ps) - 1
    IN backward_loop([ps EXCEPT ![last_idx].pos = anchor_pos],
                     last_idx, link_distance)

\* the loop body of step 4, mutated: the offset is not halved
chain_collide_whole_offset(ps, i, j) ==
    LET to_other == sub(ps[j].pos, ps[i].pos)
        min_dist == ps[i].radius + ps[j].radius
    IN IF length(to_other) <= min_dist
       THEN LET corrected == with_length(to_other, min_dist)
                offset == sub(sub(ps[j].pos, ps[i].pos), corrected)
            IN [ps |-> [ps EXCEPT ![i].pos = add(@, offset),
                                  ![j].pos = sub(@, offset)],
                fired |-> TRUE]
       ELSE [ps |-> ps, fired |-> FALSE]

\* update, step 4, the loop body: the test and correction of the pair
\* (i, j).  The result is the links and whether the correction fired.
chain_collide(ps, i, j) ==
    LET to_other == sub(ps[j].pos, ps[i].pos)
        min_dist == ps[i].radius + ps[j].radius
    IN IF length(to_other) <= min_dist
       THEN LET corrected == with_length(to_other, min_dist)
                offset == sub(sub(ps[j].pos, ps[i].pos), corrected)
                half_offset == div(offset, U(2))
            IN [ps |-> [ps EXCEPT ![i].pos = add(@, half_offset),
                                  ![j].pos = sub(@, half_offset)],
                fired |-> TRUE]
       ELSE [ps |-> ps, fired |-> FALSE]

\* `for i in 0..len { for j in (i + 1)..len { .. } }`, from the pair (i, j).
\* The log gets one entry per pair tested, as in sep_neighbours.
RECURSIVE collision_pass(_, _, _, _)
collision_pass(ps, i, j, log) ==
    IF i >= len(ps) THEN [ps |-> ps, log |-> log]
    ELSE IF j >= len(ps) THEN collision_pass(ps, i + 1, i + 2, log)
    ELSE CHOOSE out \in
            {collision_pass(t.r.ps, i, j + 1,
                 Append(t.log,
                        [i |-> i, j |-> j, fired |-> t.r.fired,
                         pi |-> t.ps[i].pos, pj |-> t.ps[j].pos,
                         qi |-> t.r.ps[i].pos, qj |-> t.r.ps[j].pos])) :
               t \in {[r |-> chain_collide(ps, i, j), ps |-> ps,
                       log |-> log]}} : TRUE

\* update, steps 1 to 5, mutated: the main particle is put on the cursor
\* instead of on the first link
chain_steps_main_at_cursor(s, mouse_pos) ==
    CHOOSE out \in
       {[sim |-> [s EXCEPT !.particles = collided.ps,
                           !.main_particle.pos = mouse_pos],
         forward |-> forward,
         backward |-> backward,
         collisions |-> collided.log] :
          <<forward, backward, collided>> \in
             {<<fb[1], fb[2], IF s.ball_collision
                              THEN collision_pass(fb[2], 0, 1, <<>>)
                              ELSE [ps |-> fb[2], log |-> <<>>]>> :
                fb \in {<<f, IF s.use_fabrik
                             THEN backward_pass(f, s.anchor_pos,
                                                s.link_distance)
                             ELSE f>> :
                          f \in {forward_pass(
                                   [s.particles EXCEPT ![0].pos = mouse_pos],
                                   1, s.link_distance)}}}} : TRUE

\* update, steps 1 to 5 (a chain that is not empty): the first link on the
\* cursor, the forward pass, the backward pass, the collision pass, and the
\* main particle on the first link
chain_steps(s, mouse_pos) ==
    CHOOSE out \in
       {[sim |-> [s EXCEPT !.particles = collided.ps,
                           !.main_particle.pos = collided.ps[0].pos],
         forward |-> forward,
         backward |-> backward,
         collisions |-> collided.log] :
          <<forward, backward, collided>> \in
             {<<fb[1], fb[2], IF s.ball_collision
                              THEN collision_pass(fb[2], 0, 1, <<>>)
                              ELSE [ps |-> fb[2], log |-> <<>>]>> :
                fb \in {<<f, IF s.use_fabrik
                             THEN backward_pass(f, s.anchor_pos,
                                                s.link_distance)
                             ELSE f>> :
                          f \in {forward_pass(
                                   [s.particles EXCEPT ![0].pos = mouse_pos],
                                   1, s.link_distance)}}}} : TRUE

\* update, mutated: no check for the empty chain, so `self.particles[0]`
\* is out of range and the call panics
DistanceChain_update_unchecked(s, mouse_pos) ==
    IF len(s.particles) = 0
    THEN [sim |-> [s EXCEPT !.kind = "panicked"],
          forward |-> s.particles, backward |-> s.particles,
          collisions |-> <<>>]
    ELSE chain_steps(s, mouse_pos)

\* impl Simulation for DistanceChainSimulation: update.  The result is the
\* new object, the links as they were after the forward pass and after the
\* backward pass, and the log of the collision pass.
DistanceChain_update(s, mouse_pos) ==
    IF len(s.particles) = 0
    THEN [sim |-> s, forward |-> s.particles, backward |-> s.particles,
          collisions |-> <<>>]
    ELSE chain_steps(s, mouse_pos)

\* should_render_main_particle of the chain, mutated: the trait's default
DistanceChain_should_render_as_default == TRUE

\* should_render_main_particle of the chain
DistanceChain_should_render_main_particle == FALSE

(***************************************************************************)
(* The chain driven by its operations: update with a cursor, and the four  *)
(* mutators, MaxChainOps operations in all.                                *)
(***************************************************************************)

MaxChainOps == 4

ChainCounts == {0, 1, 2, 3}

ChainBallRadius == U(15)

ChainLinkDistance == U(30)

ChainStart == ZERO

\* the start position, the initial place of link 1, and points off the axis
ChainCursors ==
    {ZERO, Vec2(U(60), 0), Vec2(U(10), U(10)), Vec2(U(40), -U(30))}

ChainAnchors == {Vec2(U(40), U(30))}

ChainLinkDistances == {U(20), -U(20)}

InitChain ==
    /\ \E count \in ChainCounts :
          sim = DistanceChain_new(count, ChainBallRadius, ChainLinkDistance,
                                  ChainStart)
    /\ hash = NoHash
    /\ nearby = <<>>
    /\ call = NoCall
    /\ ev = [op |-> "new"]
    /\ steps = 0
    /\ current_scene = NoScene

ChainUpdate ==
    /\ steps < MaxChainOps
    /\ \E mouse_pos \in ChainCursors :
          \E r \in {DistanceChain_update(sim, mouse_pos)} :
             /\ sim' = r.sim
             /\ ev' = [op |-> "update", mouse |-> mouse_pos, pre |-> sim,
                       forward |-> r.forward, backward |-> r.backward,
                       collisions |-> r.collisions]
    /\ steps' = steps + 1
    /\ UNCHANGED <<hash, nearby, call, current_scene>>

ChainSetFabrik ==
    /\ steps < MaxChainOps
    /\ \E enabled \in BOOLEAN :
          /\ sim' = set_fabrik(sim, enabled)
          /\ ev' = [op |-> "set_fabrik", pre |-> sim, value |-> enabled]
    /\ steps' = steps + 1
    /\ UNCHANGED <<hash, nearby, call, current_scene>>

ChainSetBallCollision ==
    /\ steps < MaxChainOps
    /\ \E enabled \in BOOLEAN :
          /\ sim' = set_ball_collision(sim, enabled)
          /\ ev' = [op |-> "set_ball_collision", pre |-> sim, value |-> enabled]
    /\ steps' = steps + 1
    /\ UNCHANGED <<hash, nearby, call, current_scene>>

ChainSetLinkDistance ==
    /\ steps < MaxChainOps
    /\ \E dist \in ChainLinkDistances :
          /\ sim' = set_link_distance(sim, dist)
          /\ ev' = [op |-> "set_link_distance", pre |-> sim, value |-> dist]
    /\ steps' = steps + 1
    /\ UNCHANGED <<hash, nearby, call, current_scene>>

ChainSetAnchorPos ==
    /\ steps < MaxChainOps
    /\ \E pos \in ChainAnchors \cup {ChainStart} :
          /\ sim' = set_anchor_pos(sim, pos)
          /\ ev' = [op |-> "set_anchor_pos", pre |-> sim, value |-> pos]
    /\ steps' = steps + 1
    /\ UNCHANGED <<hash, nearby, call, current_scene>>

NextChain ==
    \/ ChainUpdate
    \/ ChainSetFabrik
    \/ ChainSetBallCollision
    \/ ChainSetLinkDistance
    \/ ChainSetAnchorPos

SpecChain == InitChain /\ [][NextChain]_vars

AfterChainUpdate == sim.kind = "chain" /\ ev.op = "update"

\* link i lay, before the forward pass reached it, at distance zero from the
\* place its predecessor was moved to
Coincident(i) == distance(ev.pre.particles[i].pos, ev.forward[i - 1].pos) = 0

(* C2 as stated: after an update with the backward pass disabled every
   link i in 1..M-1 is link_distance away from link i-1 (up to rounding),
   whatever the cursor, the prior state and the collision toggle. *)
C2_Original ==
    (AfterChainUpdate /\ ~ev.pre.use_fabrik) =>
        \A i \in DOMAIN sim.particles :
            i >= 1 => Near(distance(sim.particles[i].pos, sim.particles[i - 1].pos),
                           sim.link_distance, sim.link_distance)

(* C2 amended: in an update with the backward pass disabled, at the end of
   the forward pass link 0 is on the cursor, every link i in 1..M-1 that did
   not lie on the new position of link i-1 is |link_distance| away from
   link i-1 (up to rounding), and a link that did lie on it stays on it, at
   distance 0; with the collision toggle off these are the positions after
   update, with the toggle on the collision pass moves them further. *)
C2_LinkInvariant ==
    (AfterChainUpdate /\ ~ev.pre.use_fabrik /\ len(sim.particles) > 0) =>
        /\ ev.forward[0].pos = ev.mouse
        /\ \A i \in DOMAIN ev.forward :
              i >= 1 =>
                 IF Coincident(i)
                 THEN ev.forward[i].pos = ev.forward[i - 1].pos
                 ELSE NearAt(distance(ev.forward[i].pos, ev.forward[i - 1].pos),
                             Abs(sim.link_distance),
                             distance(ev.pre.particles[i].pos, ev.forward[i - 1].pos))
        /\ ~ev.pre.ball_collision => sim.particles = ev.forward

\* a forward-only update with the collision toggle off pulled a chain of
\* three links to a cursor off the axis, no link coincident
C2_Witness ==
    /\ AfterChainUpdate
    /\ ~ev.pre.use_fabrik
    /\ ~ev.pre.ball_collision
    /\ len(sim.particles) = 3
    /\ ev.mouse.y # 0
    /\ \A i \in 1..2 : ~Coincident(i)
    /\ sim.particles[2].pos # ev.pre.particles[2].pos

(* C3: whenever the backward pass is enabled and the chain is not empty,
   after update the last link is exactly on the configured anchor position,
   for either setting of the collision toggle. *)
C3_Anchoring ==
    (AfterChainUpdate /\ ev.pre.use_fabrik /\ len(sim.particles) > 0) =>
        sim.particles[len(sim.particles) - 1].pos = sim.anchor_pos

(* C11: with both toggles off, update puts link 0 on the cursor and then,
   for i = 1..M-1 ascending, resolves link i (from where it was) against
   the position link i-1 has after its own update, at link_distance; the
   radii are untouched.  Three links at x = 30, 60, 90 with link distance
   30 and the cursor at (0,0) end at (0,0), (30,0), (60,0). *)
C11_ForwardPass ==
    (AfterChainUpdate /\ ~ev.pre.use_fabrik /\ ~ev.pre.ball_collision
       /\ len(sim.particles) > 0) =>
        /\ sim.particles[0].pos = ev.mouse
        /\ \A i \in DOMAIN sim.particles :
              /\ sim.particles[i].radius = ev.pre.particles[i].radius
              /\ i >= 1 =>
                    sim.particles[i].pos =
                       ConstraintResolver_distance(ev.pre.particles[i].pos,
                                                   sim.particles[i - 1].pos,
                                                   ev.pre.link_distance)
        /\ (/\ len(sim.particles) = 3
            /\ \A i \in 0..2 : ev.pre.particles[i].pos = Vec2(U(30 * (i + 1)), 0)
            /\ ev.pre.link_distance = U(30)
            /\ ev.mouse = ZERO)
              => \A i \in 0..2 : sim.particles[i].pos = Vec2(U(30 * i), 0)

\* the scenario was run: the chain at 30, 60, 90 pulled to the cursor (0,0)
\* by one forward-only update, the tail now at (60,0)
C11_Witness ==
    /\ AfterChainUpdate
    /\ ~ev.pre.use_fabrik /\ ~ev.pre.ball_collision
    /\ len(sim.particles) = 3
    /\ \A i \in 0..2 : ev.pre.particles[i].pos = Vec2(U(30 * (i + 1)), 0)
    /\ ev.pre.link_distance = U(30)
    /\ ev.mouse = ZERO
    /\ sim.particles[2].pos = Vec2(U(60), 0)

(* C12: after every update of a chain that is not empty, for every setting
   of the two toggles, the main particle is at the final position of link
   0, the position after the backward and collision passes; its radius is
   untouched.  (On an empty chain update returns before it and the main
   particle stays where it was.) *)
C12_MainFollowsFirst ==
    AfterChainUpdate =>
        /\ len(sim.particles) > 0
              => sim.main_particle.pos = sim.particles[0].pos
        /\ len(sim.particles) = 0 => sim.main_particle = ev.pre.main_particle
        /\ sim.main_particle.radius = ev.pre.main_particle.radius

\* an update with both toggles on left link 0 away from the cursor, and the
\* main particle on link 0
C12_Witness ==
    /\ AfterChainUpdate
    /\ ev.pre.use_fabrik /\ ev.pre.ball_collision
    /\ len(sim.particles) = 3
    /\ sim.particles[0].pos # ev.mouse
    /\ sim.particles[0].pos # ev.backward[0].pos
    /\ sim.main_particle.pos = sim.particles[0].pos

(* C14: set_fabrik, set_ball_collision, set_link_distance and set_anchor_pos
   each change their own field and nothing else: no link, no radius, not
   the main particle.  The next update leaves the four fields as set and
   works with them: with the backward pass on the last link is put on the
   anchor set, with it off the backward pass does nothing; with the
   collision toggle off the collision pass does nothing; the links are
   resolved at the link distance set. *)
C14_MutatorsFrame ==
    /\ ev.op = "set_fabrik" => sim = [ev.pre EXCEPT !.use_fabrik = ev.value]
    /\ ev.op = "set_ball_collision"
          => sim = [ev.pre EXCEPT !.ball_collision = ev.value]
    /\ ev.op = "set_link_distance"
          => sim = [ev.pre EXCEPT !.link_distance = ev.value]
    /\ ev.op = "set_anchor_pos" => sim = [ev.pre EXCEPT !.anchor_pos = ev.value]
    /\ (AfterChainUpdate /\ len(sim.particles) > 0) =>
          /\ sim.use_fabrik = ev.pre.use_fabrik
          /\ sim.ball_collision = ev.pre.ball_collision
          /\ sim.link_distance = ev.pre.link_distance
          /\ sim.anchor_pos = ev.pre.anchor_pos
          /\ ev.pre.use_fabrik
                => ev.backward[len(sim.particles) - 1].pos = ev.pre.anchor_pos
          /\ ~ev.pre.use_fabrik => ev.backward = ev.forward
          /\ ~ev.pre.ball_collision => sim.particles = ev.backward
          /\ \A i \in DOMAIN ev.forward :
                (i >= 1 /\ ~Coincident(i))
                   => NearAt(distance(ev.forward[i].pos, ev.forward[i - 1].pos),
                             Abs(ev.pre.link_distance),
                             distance(ev.pre.particles[i].pos,
                                      ev.forward[i - 1].pos))

\* an update ran with a link distance, an anchor and a backward-pass toggle
\* that had all been set by the mutators, and put the last link on that anchor
C14_Witness ==
    /\ AfterChainUpdate
    /\ len(sim.particles) = 3
    /\ ev.pre.link_distance = U(20)
    /\ ev.pre.use_fabrik
    /\ ev.pre.anchor_pos # ChainStart
    /\ ev.backward[2].pos = ev.pre.anchor_pos
    /\ ev.forward[2].pos # ev.pre.anchor_pos


(***************************************************************************)
(* The application's current simulation: create_simulation builds one of   *)
(* the simulations and the main loop drives it through the Simulation      *)
(* trait, with the chain's keys available only when it is a chain.         *)
(***************************************************************************)
InitSims == InitChain \/ InitSep

ChainStep == sim.kind = "chain" /\ NextChain

SepStep == sim.kind = "separate" /\ NextSep

NextSims == ChainStep \/ SepStep

SpecSims == InitSims /\ [][NextSims]_vars

\* C13: update on a simulation without particles is a no-op.  On a chain
\* built with count = 0 it indexes nothing, fails in no way and leaves the
\* whole object as it was, whatever the two toggles, the anchor and the link
\* distance are (the backward pass would index len - 1); on a separation
\* simulation with no particles it moves the boundary circle to the cursor
\* and changes nothing else.
C13_EmptyNoOp ==
    /\ (/\ ev.op = "update"
        /\ ev.pre.kind = "chain"
        /\ len(ev.pre.particles) = 0)
          => /\ sim = ev.pre
             /\ ev.forward = <<>>
             /\ ev.backward = <<>>
    /\ (/\ ev.op = "update"
        /\ ev.pre.kind = "separate"
        /\ len(ev.pre.particles) = 0)
          => /\ sim = [ev.pre EXCEPT !.main_particle.pos = ev.mouse]
             /\ ev.pushed = <<>>

\* an empty chain with the backward and collision passes on was updated
\* with the cursor away from the main particle
C13_Witness ==
    /\ ev.op = "update"
    /\ sim.kind = "chain"
    /\ len(ev.pre.particles) = 0
    /\ ev.pre.use_fabrik
    /\ ev.pre.ball_collision
    /\ ev.mouse # ev.pre.main_particle.pos

\* an empty separation simulation was updated with the cursor elsewhere
C13_WitnessSeparation ==
    /\ ev.op = "update"
    /\ sim.kind = "separate"
    /\ len(ev.pre.particles) = 0
    /\ ev.mouse # ev.pre.main_particle.pos


\* C15: when the contained particle's distance to the new cursor is at most
\* boundary.radius - particle.radius, update leaves the particle where it
\* was (the boundary case distance = the allowed offset included) and the
\* only change to the simulation is that the boundary centre is the cursor.
C15_InsideUntouched ==
    (/\ AfterContainUpdate
     /\ length(sub(ev.mouse, ev.pre.particles[0].pos))
           <= ev.pre.main_particle.radius - ev.pre.particles[0].radius)
       => /\ sim.particles[0].pos = ev.pre.particles[0].pos
          /\ sim.main_particle.pos = ev.mouse
          /\ sim = [ev.pre EXCEPT !.main_particle.pos = ev.mouse]
          /\ ~ev.fired

\* an update moved the boundary centre while the particle, dragged away from
\* the start position by an earlier update, stayed strictly inside
C15_Witness ==
    /\ AfterContainUpdate
    /\ ev.pre.particles[0].pos # ContainStart
    /\ ev.mouse # ev.pre.main_particle.pos
    /\ length(sub(ev.mouse, ev.pre.particles[0].pos)) > 0
    /\ length(sub(ev.mouse, ev.pre.particles[0].pos))
          < ev.pre.main_particle.radius - ev.pre.particles[0].radius
    /\ sim.particles[0].pos = ev.pre.particles[0].pos

\* an update left the particle exactly on the allowed offset
C15_WitnessBoundary ==
    /\ AfterContainUpdate
    /\ ev.pre.main_particle.radius > ev.pre.particles[0].radius
    /\ length(sub(ev.mouse, ev.pre.particles[0].pos))
          = ev.pre.main_particle.radius - ev.pre.particles[0].radius
    /\ sim.particles[0].pos = ev.pre.particles[0].pos


(***************************************************************************)
(* Counting in the grid's lists.                                           *)
(***************************************************************************)
\* how often index i occurs in a sequence of indices
Count(seq, i) == Cardinality({n \in 1..Len(seq) : seq[n] = i})

\* the part of the buffer that get_nearby appended
Appended == SubSeq(nearby, Len(ev.out) + 1, Len(nearby))

\* the entries filed since the last clear with index i whose cell is in the
\* 3x3 block around the cell of position p
FiledInBlock(i, p) ==
    {n \in 1..Len(ev.filed) :
        /\ ev.filed[n].index = i
        /\ Abs(get_cell_coords(hash, ev.filed[n].pos)[1]
                  - get_cell_coords(hash, p)[1]) <= 1
        /\ Abs(get_cell_coords(hash, ev.filed[n].pos)[2]
                  - get_cell_coords(hash, p)[2]) <= 1}

\* the entries filed since the last clear with index i in the cell (cx, cy)
FiledInCell(i, cx, cy) ==
    {n \in 1..Len(ev.filed) :
        /\ ev.filed[n].index = i
        /\ get_cell_coords(hash, ev.filed[n].pos) = <<cx, cy>>}

\* C16: get_nearby(pos, out) keeps what out held and appends exactly the
\* indices filed in the 9 cells around pos's cell: each index as many times
\* as it was inserted into one of those cells since the last clear, so an
\* index filed only outside the block is not appended; the grid is as it
\* was before the call.
C16_NearbyExact ==
    ev.op = "get_nearby" =>
        /\ Len(nearby) >= Len(ev.out)
        /\ SubSeq(nearby, 1, Len(ev.out)) = ev.out
        /\ \A n \in 1..Len(Appended) : Appended[n] \in GridIndices
        /\ \A i \in GridIndices :
              Count(Appended, i) = Cardinality(FiledInBlock(i, ev.pos))
        /\ hash = ev.pre

\* a query appended an index twice after it was inserted twice into the
\* block, and left out an index filed two cells away
C16_Witness ==
    /\ ev.op = "get_nearby"
    /\ \E i, j \in GridIndices :
          /\ i # j
          /\ Count(Appended, i) = 2
          /\ Count(Appended, j) = 0
          /\ \E n \in 1..Len(ev.filed) : ev.filed[n].index = j

\* a query appended to a buffer that already held indices
C16_WitnessAppend ==
    /\ ev.op = "get_nearby"
    /\ Len(ev.out) > 0
    /\ Len(Appended) > 0

\* C19: after clear every cell's list is empty and the set of cell keys is
\* the one before; and as long as nothing was inserted since the last clear
\* (or since construction) every list is empty, so get_nearby at any
\* position appends nothing, after any sequence of inserts and clears.
C19_ClearEmpties ==
    /\ ev.op = "clear" =>
          /\ DOMAIN hash.cells = DOMAIN ev.pre.cells
          /\ hash.cell_size = ev.pre.cell_size
    /\ (ev.op \in {"clear", "get_nearby"} /\ ev.filed = <<>>) =>
          /\ \A k \in DOMAIN hash.cells : hash.cells[k] = <<>>
          /\ \A pos \in GridPositions, out \in {<<>>, nearby} :
                get_nearby(hash, pos, out) = out
          /\ ev.op = "get_nearby" => nearby = ev.out

\* a clear emptied two cells that held indices, one of them twice
C19_Witness ==
    /\ ev.op = "clear"
    /\ Cardinality(DOMAIN hash.cells) = 2
    /\ \E k \in DOMAIN ev.pre.cells : Len(ev.pre.cells[k]) = 2
    /\ \A k \in DOMAIN ev.pre.cells : Len(ev.pre.cells[k]) > 0

\* a query after a clear of a filled grid appended nothing
C19_WitnessQuery ==
    /\ ev.op = "get_nearby"
    /\ ev.filed = <<>>
    /\ DOMAIN hash.cells # {}
    /\ nearby = ev.out

\* C20: insert(index, pos) appends index to the list of the cell of
\* get_cell_coords(pos), which it creates when the grid has no such cell,
\* and changes no other list; the grid therefore holds each index in each
\* cell once per insert since the last clear, twice when it was inserted
\* twice.
C20_InsertOneCell ==
    /\ ev.op = "insert" =>
          \E key \in {get_cell_key(get_cell_coords(ev.pre, ev.pos)[1],
                                   get_cell_coords(ev.pre, ev.pos)[2])} :
             /\ DOMAIN hash.cells = DOMAIN ev.pre.cells \cup {key}
             /\ hash.cells[key] =
                   (IF key \in DOMAIN ev.pre.cells THEN ev.pre.cells[key]
                    ELSE <<>>) \o <<ev.index>>
             /\ \A k \in DOMAIN ev.pre.cells :
                   k # key => hash.cells[k] = ev.pre.cells[k]
             /\ hash.cell_size = ev.pre.cell_size
    /\ ev.op \in {"insert", "clear", "get_nearby"} =>
          \A i \in GridIndices, cx \in -1..1, cy \in -1..1 :
             \E key \in {get_cell_key(cx, cy)} :
                Cardinality(FiledInCell(i, cx, cy)) =
                   (IF key \in DOMAIN hash.cells
                    THEN Count(hash.cells[key], i) ELSE 0)

\* the same index was inserted a second time at the same position while
\* another cell held an index, and the cell's list holds it twice
C20_Witness ==
    /\ ev.op = "insert"
    /\ Cardinality(DOMAIN hash.cells) = 2
    /\ \E key \in DOMAIN hash.cells :
          /\ hash.cells[key] = <<ev.index, ev.index>>
          /\ ev.pre.cells[key] = <<ev.index>>

\* an insert created a cell next to an existing one
C20_WitnessCreate ==
    /\ ev.op = "insert"
    /\ DOMAIN ev.pre.cells # {}
    /\ DOMAIN hash.cells # DOMAIN ev.pre.cells


(***************************************************************************)
(* get_cell_key on its own: the key of the last call and the call before   *)
(* it, over i32 coordinates that include both ends of the range.           *)
(***************************************************************************)
KeyCoords ==
    {-(2147483647) - 1, -(Limb + 1), -Limb, -1, 0, 1, 3, 5, Limb - 1, Limb,
     2147483647}

InitKey ==
    /\ sim = NoSim
    /\ hash = NoHash
    /\ nearby = <<>>
    /\ call = NoCall
    /\ ev = NoEv
    /\ steps = 0
    /\ current_scene = NoScene

KeyCall ==
    /\ \E cell_x \in KeyCoords, cell_y \in KeyCoords :
          call' = [fn |-> "get_cell_key", cell_x |-> cell_x, cell_y |-> cell_y,
                   key |-> get_cell_key(cell_x, cell_y),
                   prev |-> IF call.fn = "none" THEN NoCall
                            ELSE [fn |-> call.fn, cell_x |-> call.cell_x,
                                  cell_y |-> call.cell_y, key |-> call.key]]
    /\ UNCHANGED <<sim, hash, nearby, ev, steps, current_scene>>

NextKey == KeyCall

SpecKey == InitKey /\ [][NextKey]_vars

\* the two 16-bit limbs of the two's complement of an i32
Bits32(v) == <<(v \div Limb) % Limb, v % Limb>>

\* C17: get_cell_key is collision-free on i32 coordinates: two calls that
\* return the same key had the same cell_x and the same cell_y; the high 32
\* bits of the key are the bits of cell_x and the low 32 bits the bits of
\* cell_y, for negative coordinates too (the sign extension of cell_y does
\* not reach the high half); cell (3, 5) has the key 0x0000000300000005.
C17_KeyInjective ==
    call.fn = "get_cell_key" =>
        /\ <<call.key[1], call.key[2]>> = Bits32(call.cell_x)
        /\ <<call.key[3], call.key[4]>> = Bits32(call.cell_y)
        /\ (call.cell_x = 3 /\ call.cell_y = 5) => call.key = <<0, 3, 0, 5>>
        /\ (call.prev.fn = "get_cell_key" /\ call.key = call.prev.key)
              => /\ call.cell_x = call.prev.cell_x
                 /\ call.cell_y = call.prev.cell_y

\* two calls with the same non-negative cell_x and negative cell_y values
\* that differ only above the low 16 bits returned different keys
C17_Witness ==
    /\ call.fn = "get_cell_key"
    /\ call.prev.fn = "get_cell_key"
    /\ call.cell_x = 0 /\ call.prev.cell_x = 0
    /\ call.cell_y = -Limb /\ call.prev.cell_y = -(2147483647) - 1
    /\ call.key # call.prev.key
    /\ call.key[1] = 0 /\ call.key[2] = 0

(***************************************************************************)
(* get_cell_coords on its own: the cell of the last call and of the call   *)
(* before it on the same grid.                                             *)
(***************************************************************************)
CoordCellSizes == {U(10), U(3)}

\* coordinates on, just below and just above the cell boundaries of both
\* cell sizes, on both sides of 0
CoordValues ==
    {-U(20), -U(10) - 1, -U(10), -U(10) + 1, -U(3), -(U(1) \div 2), -1, 0, 1,
     U(1) \div 2, U(3) - 1, U(3), U(10) - 1, U(10), U(10) + 1, U(20) - 1}

\* the second coordinate ranges over fewer values
CoordValuesY == {-U(10) - 1, -(U(1) \div 2), U(3) - 1, U(10)}

InitCoords ==
    /\ sim = NoSim
    /\ \E c \in CoordCellSizes : hash = SpatialHash_new(c)
    /\ nearby = <<>>
    /\ call = NoCall
    /\ ev = NoEv
    /\ steps = 0
    /\ current_scene = NoScene

CoordsCall ==
    /\ \E x \in CoordValues, y \in CoordValuesY :
          call' = [fn |-> "get_cell_coords", pos |-> Vec2(x, y),
                   cell |-> get_cell_coords(hash, Vec2(x, y)),
                   prev |-> IF call.fn = "none" THEN NoCall
                            ELSE [fn |-> call.fn, pos |-> call.pos,
                                  cell |-> call.cell]]
    /\ UNCHANGED <<sim, hash, nearby, ev, steps, current_scene>>

NextCoords == CoordsCall

SpecCoords == InitCoords /\ [][NextCoords]_vars

\* x lies in the cell c of width cell_size: c*cell_size <= x < (c+1)*cell_size
InCell(x, c, cell_size) == c * cell_size <= x /\ x < (c + 1) * cell_size

\* the same with the lower bound taken up to the rounding of the quotient
\* x / cell_size (half a unit of the quotient, times cell_size)
InCellRounded(x, c, cell_size) ==
    /\ 2 * Scale * c * cell_size <= 2 * Scale * x + cell_size
    /\ x < (c + 1) * cell_size

(* C18 as stated: every coordinate x maps to the integer c with
   c*cell_size <= x < (c+1)*cell_size. *)
C18_Original ==
    call.fn = "get_cell_coords" =>
        /\ InCell(call.pos.x, call.cell[1], hash.cell_size)
        /\ InCell(call.pos.y, call.cell[2], hash.cell_size)

\* C18: get_cell_coords takes the floor, not the truncation, of the rounded
\* quotient x / cell_size: x < (c+1)*cell_size always, c*cell_size <= x up
\* to the rounding of the quotient (a coordinate within that rounding below a
\* cell boundary is in the cell above the boundary), a negative coordinate
\* further than that from 0 has a negative cell, and the mapping is
\* monotone on each axis.
C18_FloorOfQuotient ==
    call.fn = "get_cell_coords" =>
        /\ call.cell[1] = Floor(FDiv(call.pos.x, hash.cell_size))
        /\ call.cell[2] = Floor(FDiv(call.pos.y, hash.cell_size))
        /\ InCellRounded(call.pos.x, call.cell[1], hash.cell_size)
        /\ InCellRounded(call.pos.y, call.cell[2], hash.cell_size)
        /\ call.prev.fn = "get_cell_coords" =>
              /\ call.prev.pos.x <= call.pos.x => call.prev.cell[1] <= call.cell[1]
              /\ call.prev.pos.y <= call.pos.y => call.prev.cell[2] <= call.cell[2]

\* two calls half a unit on either side of 0 returned the cells -1 and 0
C18_Witness ==
    /\ call.fn = "get_cell_coords"
    /\ call.prev.fn = "get_cell_coords"
    /\ call.prev.pos.x = -(U(1) \div 2) /\ call.pos.x = U(1) \div 2
    /\ call.prev.cell[1] = -1 /\ call.cell[1] = 0

\* a coordinate just below a cell boundary was mapped to the cell above it
C18_WitnessRounded ==
    /\ call.fn = "get_cell_coords"
    /\ ~InCell(call.pos.x, call.cell[1], hash.cell_size)
    /\ InCellRounded(call.pos.x, call.cell[1], hash.cell_size)


(***************************************************************************)
(* The two pairwise passes side by side: one round of the separation       *)
(* simulation's step 3 (with the grid) and the chain's collision pass      *)
(* (all pairs) are applied to the same particles.  sim takes the result    *)
(* of the round, ev.chain is the result of the collision pass.             *)
(***************************************************************************)
InitPairs == InitRound

PairsStep ==
    /\ steps < MaxSteps
    /\ \E r \in {separation_round(sim.particles,
                    SpatialHash_new(FMul(sim.ball_radius, U(2))))} :
          /\ sim' = [sim EXCEPT !.particles = r.ps]
          /\ ev' = [op |-> "pairs", start |-> r.start, log |-> r.log,
                    chain |-> collision_pass(sim.particles, 0, 1, <<>>)]
    /\ steps' = steps + 1
    /\ UNCHANGED <<hash, nearby, call, current_scene>>

NextPairs == PairsStep

SpecPairs == InitPairs /\ [][NextPairs]_vars

\* the pairs of a log come in the order of the loops
\* `for i in 0..len { for j in (i + 1)..len`
InLoopOrder(log) ==
    \A k \in 1..(Len(log) - 1) :
        \/ log[k].i < log[k + 1].i
        \/ (log[k].i = log[k + 1].i /\ log[k].j < log[k + 1].j)

\* every pair that the collision pass corrected was returned by the grid
GridReturnsOverlapping ==
    \A k \in 1..Len(ev.chain.log) :
        ev.chain.log[k].fired
           => Tested(ev.log, ev.chain.log[k].i, ev.chain.log[k].j) # {}

\* C21: the chain's collision pass applies the pair rule of the separation
\* simulation's step 3: on every pair i < j of the same particles both give
\* the same positions and the same outcome of the overlap test, and the
\* collision pass tests every pair i < j once, in loop order; when the grid
\* returned every pair that the collision pass corrected and the round took
\* its pairs in loop order, the positions after the round and after the
\* collision pass are identical.
C21_SamePairRule ==
    ev.op = "pairs" =>
        /\ \A i, j \in DOMAIN ev.start :
              i < j => chain_collide(ev.start, i, j) = sep_pair(ev.start, i, j)
        /\ InLoopOrder(ev.chain.log)
        /\ \A i, j \in DOMAIN ev.start :
              Cardinality(Tested(ev.chain.log, i, j)) = (IF i < j THEN 1 ELSE 0)
        /\ (InLoopOrder(ev.log) /\ GridReturnsOverlapping)
              => sim.particles = ev.chain.ps

\* three particles of which two pairs were corrected by both passes, with
\* the same positions afterwards
C21_Witness ==
    /\ ev.op = "pairs"
    /\ len(ev.start) = 3
    /\ InLoopOrder(ev.log)
    /\ GridReturnsOverlapping
    /\ Cardinality({k \in 1..Len(ev.chain.log) : ev.chain.log[k].fired}) >= 2
    /\ sim.particles = ev.chain.ps
    /\ sim.particles # ev.start

\* the grid missed a pair that the collision pass corrected, and the
\* positions differ
C21_WitnessDiffer ==
    /\ ev.op = "pairs"
    /\ ~GridReturnsOverlapping
    /\ sim.particles # ev.chain.ps


(***************************************************************************)
(* The host (main.rs): the scene selector, the current simulation, and     *)
(* one frame of the main loop: the scene keys, the chain's keys behind     *)
(* the downcast, and update with the cursor.                               *)
(***************************************************************************)
MaxFrames == 2            \* frames per behaviour

DefaultSepCount == 2      \* particles of the separation scene (4000)

DefaultChainCount == 3    \* links of the chain scene (20)

\* SceneType::next
SceneType_next(scene) ==
    CASE scene = "BasicDistance" -> "SeparateCollision"
      [] scene = "SeparateCollision" -> "DistanceChain"
      [] scene = "DistanceChain" -> "BasicDistance"

BasicDistance_default_scene ==
    BasicDistance_new(U(50), U(15), Vec2(U(400), U(400)))

SeparateCollision_default_scene ==
    SeparateCollision_new(DefaultSepCount, U(5), U(50), Vec2(U(400), U(400)))

DistanceChain_default_scene ==
    DistanceChain_new(DefaultChainCount, U(15), U(30), Vec2(U(400), U(400)))

\* create_simulation
create_simulation(scene_type) ==
    CASE scene_type = "BasicDistance" -> BasicDistance_default_scene
      [] scene_type = "SeparateCollision" -> SeparateCollision_default_scene
      [] scene_type = "DistanceChain" -> DistanceChain_default_scene

\* the trait's default body, mutated: false
Simulation_should_render_never == FALSE

\* the trait's default body of should_render_main_particle
Simulation_should_render_main_particle == TRUE

\* simulation.should_render_main_particle() on the trait object
should_render_main_particle(s) ==
    IF s.kind = "chain" THEN DistanceChain_should_render_main_particle
    ELSE Simulation_should_render_main_particle

\* simulation.update(mouse_pos) on the trait object
Simulation_update(s, mouse_pos) ==
    CASE s.kind = "basic" -> BasicDistance_update(s, mouse_pos).sim
      [] s.kind = "separate" -> SeparateCollision_update(s, mouse_pos).sim
      [] s.kind = "chain" -> DistanceChain_update(s, mouse_pos).sim
      [] OTHER -> s

\* downcast_chain_mut: Some exactly when the flag is false
downcast_chain_mut(s) == ~should_render_main_particle(s)

\* a scene key, mutated: the simulation is kept when the scene is the
\* current one
key_scene_keeps_current(h, pressed, scene) ==
    IF pressed /\ scene # h.scene
    THEN [scene |-> scene, sim |-> create_simulation(scene)]
    ELSE h

\* `if is_key_pressed(..) { current_scene = ..; simulation =
\* create_simulation(current_scene); }` on h = (current_scene, simulation)
key_scene(h, pressed, scene) ==
    IF pressed
    THEN [scene |-> scene, sim |-> create_simulation(scene)]
    ELSE h

\* the four scene keys in the order of the loop body: Space, 1, 2, 3
scene_keys(h, keys) ==
    key_scene(
        key_scene(
            key_scene(
                key_scene(h, "Space" \in keys, SceneType_next(h.scene)),
                "Key1" \in keys, "BasicDistance"),
            "Key2" \in keys, "SeparateCollision"),
        "Key3" \in keys, "DistanceChain")

\* half of screen_width() and screen_height() of the configured window
ScreenCentre == Vec2(U(512), U(384))

\* the body of `if let Some(chain) = downcast_chain_mut(..)`: F, C and the
\* anchor
chain_keys(chain, keys) ==
    set_anchor_pos(
        (IF "C" \in keys
         THEN set_ball_collision(
                 (IF "F" \in keys THEN set_fabrik(chain, ~chain.use_fabrik)
                  ELSE chain),
                 ~chain.ball_collision)
         ELSE IF "F" \in keys THEN set_fabrik(chain, ~chain.use_fabrik)
         ELSE chain),
        ScreenCentre)

\* the outcomes of the chain-only block on the simulation s.  The downcast
\* reinterprets the object as a chain whatever it is; on another kind the
\* writes go to memory that is not a chain (undefined behaviour).
chain_block(s, keys) ==
    IF ~downcast_chain_mut(s) THEN {s}
    ELSE IF s.kind = "chain" THEN {chain_keys(s, keys)}
    ELSE {s, [kind |-> "undefined"]}

Keys == {"Space", "Key1", "Key2", "Key3", "F", "C"}

\* the keys pressed in one frame: any combination
KeySets == SUBSET Keys

HostCursors == {Vec2(U(500), U(400)), Vec2(U(430), U(420))}

InitHost ==
    /\ current_scene = "BasicDistance"
    /\ sim = create_simulation("BasicDistance")
    /\ hash = NoHash
    /\ nearby = <<>>
    /\ call = NoCall
    /\ ev = [op |-> "start"]
    /\ steps = 0

\* one pass of the loop body in which Escape is not pressed
Frame ==
    /\ steps < MaxFrames
    /\ \E keys \in KeySets, mouse_pos \in HostCursors :
         \E h \in {scene_keys([scene |-> current_scene, sim |-> sim], keys)} :
            \E configured \in chain_block(h.sim, keys) :
               /\ current_scene' = h.scene
               /\ sim' = Simulation_update(configured, mouse_pos)
               /\ ev' = [op |-> "frame", keys |-> keys, mouse |-> mouse_pos,
                         pre_scene |-> current_scene, pre |-> sim,
                         created |-> h.sim,
                         downcast |-> downcast_chain_mut(h.sim),
                         configured |-> configured]
    /\ steps' = steps + 1
    /\ UNCHANGED <<hash, nearby, call>>

\* the pass in which Escape is pressed: the keys are handled and the loop
\* is left before update
QuitFrame ==
    /\ steps < MaxFrames
    /\ \E keys \in KeySets :
         \E h \in {scene_keys([scene |-> current_scene, sim |-> sim], keys)} :
            \E configured \in chain_block(h.sim, keys) :
               /\ current_scene' = h.scene
               /\ sim' = configured
               /\ ev' = [op |-> "quit", keys |-> keys,
                         pre_scene |-> current_scene, pre |-> sim,
                         created |-> h.sim,
                         downcast |-> downcast_chain_mut(h.sim),
                         configured |-> configured]
    /\ steps' = MaxFrames
    /\ UNCHANGED <<hash, nearby, call>>

NextHost == Frame \/ QuitFrame

SpecHost == InitHost /\ [][NextHost]_vars

\* the concrete kind that create_simulation builds for a scene
KindOf(scene) ==
    CASE scene = "BasicDistance" -> "basic"
      [] scene = "SeparateCollision" -> "separate"
      [] scene = "DistanceChain" -> "chain"

AfterFrame == ev.op \in {"frame", "quit"}


\* C22: should_render_main_particle() is false for the chain simulation and
\* true for the containment and the separation simulation, in every state
\* of every instance: before and after the scene keys, the chain's keys and
\* update, whatever the toggles and the positions are.
C22_RenderFlag ==
    /\ sim.kind \in {"basic", "separate", "chain"}
    /\ should_render_main_particle(sim) = (sim.kind # "chain")
    /\ AfterFrame =>
          \A s \in {ev.pre, ev.created, ev.configured} :
             should_render_main_particle(s) = (s.kind \in {"basic", "separate"})

\* a chain whose toggles were both switched on and whose links were moved
\* by update still answers false
C22_Witness ==
    /\ ev.op = "frame"
    /\ sim.kind = "chain"
    /\ sim.use_fabrik /\ sim.ball_collision
    /\ sim.particles # DistanceChain_default_scene.particles
    /\ ~should_render_main_particle(sim)

SceneKeys == {"Space", "Key1", "Key2", "Key3"}

\* C26: after any frames with any keys the kind of the active simulation is
\* the one of current_scene; the chain-only block is entered exactly when
\* the simulation is a DistanceChainSimulation, so on a containment or a
\* separation simulation F, C and the anchor update change nothing, and on
\* a chain F and C flip their toggle and the anchor is the screen centre.
C26_SceneConsistency ==
    /\ sim.kind = KindOf(current_scene)
    /\ AfterFrame =>
          /\ ev.pre.kind = KindOf(ev.pre_scene)
          /\ ev.created.kind = KindOf(current_scene)
          /\ ev.downcast = (ev.created.kind = "chain")
          /\ ev.created.kind # "chain" => ev.configured = ev.created
          /\ ev.created.kind = "chain" =>
                ev.configured =
                   [ev.created EXCEPT
                       !.use_fabrik = (@ # ("F" \in ev.keys)),
                       !.ball_collision = (@ # ("C" \in ev.keys)),
                       !.anchor_pos = ScreenCentre]

\* F and C were pressed while a separation simulation that update had
\* already changed was active, and nothing but update touched it
C26_Witness ==
    /\ ev.op = "frame"
    /\ {"F", "C"} \subseteq ev.keys
    /\ ev.keys \cap SceneKeys = {}
    /\ ev.pre.kind = "separate"
    /\ ev.pre # SeparateCollision_default_scene
    /\ ~ev.downcast
    /\ ev.configured = ev.pre

\* F was pressed in the frame that switched to the chain, and the new
\* chain's backward pass is on
C26_WitnessChain ==
    /\ ev.op = "frame"
    /\ ev.pre.kind = "basic"
    /\ {"Key3", "F"} \subseteq ev.keys
    /\ ev.downcast
    /\ sim.use_fabrik

\* the scene selected by the scene keys of a frame: the last of Space, 1,
\* 2, 3 in the order of the loop body wins
SelectedScene(keys, scene) ==
    IF "Key3" \in keys THEN "DistanceChain"
    ELSE IF "Key2" \in keys THEN "SeparateCollision"
    ELSE IF "Key1" \in keys THEN "BasicDistance"
    ELSE IF scene = "BasicDistance" THEN "SeparateCollision"
    ELSE IF scene = "SeparateCollision" THEN "DistanceChain"
    ELSE "BasicDistance"

\* C27: a frame in which Space, 1, 2 or 3 is pressed replaces the
\* simulation by a freshly constructed default instance of the selected
\* scene, also when that scene is the current one: before the frame's F/C
\* handling the positions are the initial layout and a chain's two toggles
\* are false; without a scene key the simulation and the scene are kept.
\* Space alone advances BasicDistance -> SeparateCollision -> DistanceChain
\* -> BasicDistance, and three steps of next return to the start.
C27_SceneChangeReplaces ==
    /\ \A scene \in {"BasicDistance", "SeparateCollision", "DistanceChain"} :
          SceneType_next(SceneType_next(SceneType_next(scene))) = scene
    /\ AfterFrame =>
          /\ ev.keys \cap SceneKeys # {} =>
                /\ current_scene = SelectedScene(ev.keys, ev.pre_scene)
                /\ ev.created = create_simulation(current_scene)
                /\ ev.created.kind = "chain" =>
                      /\ ~ev.created.use_fabrik
                      /\ ~ev.created.ball_collision
                      /\ ev.created.particles
                            = DistanceChain_default_scene.particles
          /\ ev.keys \cap SceneKeys = {} =>
                /\ current_scene = ev.pre_scene
                /\ ev.created = ev.pre
          /\ ev.keys \cap SceneKeys = {"Space"} =>
                <<ev.pre_scene, current_scene>> \in
                   {<<"BasicDistance", "SeparateCollision">>,
                    <<"SeparateCollision", "DistanceChain">>,
                    <<"DistanceChain", "BasicDistance">>}

\* key 3 was pressed while a chain with the backward pass on and moved
\* links was active, and the chain is a fresh one
C27_Witness ==
    /\ AfterFrame
    /\ ev.keys = {"Key3"}
    /\ ev.pre_scene = "DistanceChain"
    /\ ev.pre.use_fabrik
    /\ ev.pre.particles # DistanceChain_default_scene.particles
    /\ ev.created = DistanceChain_default_scene

\* Space alone led from the chain scene back to the first scene
C27_WitnessCycle ==
    /\ AfterFrame
    /\ ev.keys = {"Space"}
    /\ ev.pre_scene = "DistanceChain"
    /\ current_scene = "BasicDistance"
    /\ ev.created = BasicDistance_default_scene


(***************************************************************************)
(* The grid built with a cell size that is not positive, driven by the     *)
(* same operations.                                                        *)
(***************************************************************************)
BadCellSizes == {0, -U(10)}

InitBadGrid ==
    /\ sim = NoSim
    /\ \E c \in BadCellSizes : hash = SpatialHash_new(c)
    /\ nearby = <<>>
    /\ call = NoCall
    /\ ev = [op |-> "new", filed |-> <<>>]
    /\ steps = 0
    /\ current_scene = NoScene

SpecBadGrid == InitBadGrid /\ [][NextGrid]_vars

\* C24: a grid that SpatialHash::new returned has a positive cell size (a
\* zero or negative cell_size is rejected at construction), so no later
\* insert or get_nearby works on a cell size that is not positive.
C24_CellSizeValidated ==
    /\ hash.cell_size > 0
    /\ ev.op # "panic"


\* link i-1 lay, when the backward pass reached it, at distance zero from
\* the place its successor had been moved to
CoincidentBackward(i) ==
    distance(ev.forward[i - 1].pos, ev.backward[i].pos) = 0

BackwardOnly ==
    /\ AfterChainUpdate
    /\ ev.pre.use_fabrik
    /\ ~ev.pre.ball_collision
    /\ len(ev.pre.particles) > 0

(* C25 as stated: with the backward pass on and the collision pass off,
   every consecutive pair that was not coincident when the backward pass
   resolved it is exactly link_distance apart after update. *)
C25_Original ==
    BackwardOnly =>
        \A i \in DOMAIN sim.particles :
            (i >= 1 /\ ~CoincidentBackward(i)) =>
                distance(sim.particles[i - 1].pos, sim.particles[i].pos)
                   = sim.link_distance

\* C25: with the backward pass on and the collision pass off, update runs
\* the whole forward pass first (link 0 on the cursor, every link resolved
\* against its updated predecessor), then puts link M-1 on the anchor and,
\* for i = M-1 down to 1, resolves link i-1 from its forward position
\* against the backward-updated link i.  Afterwards every consecutive pair
\* that was not coincident when resolved is |link_distance| apart up to
\* rounding, a coincident pair stays coincident, link 0 is where the
\* backward pass put it, and a chain of one link ends on the anchor.
C25_BackwardPass ==
    BackwardOnly =>
        /\ ev.forward[0].pos = ev.mouse
        /\ \A i \in DOMAIN ev.forward :
              i >= 1 =>
                 ev.forward[i].pos =
                    ConstraintResolver_distance(ev.pre.particles[i].pos,
                                                ev.forward[i - 1].pos,
                                                ev.pre.link_distance)
        /\ sim.particles = ev.backward
        /\ sim.particles[len(sim.particles) - 1].pos = ev.pre.anchor_pos
        /\ \A i \in DOMAIN sim.particles :
              i >= 1 =>
                 /\ sim.particles[i - 1].pos =
                       ConstraintResolver_distance(ev.forward[i - 1].pos,
                                                   sim.particles[i].pos,
                                                   ev.pre.link_distance)
                 /\ IF CoincidentBackward(i)
                    THEN sim.particles[i - 1].pos = sim.particles[i].pos
                    ELSE NearAt(distance(sim.particles[i - 1].pos,
                                         sim.particles[i].pos),
                                Abs(sim.link_distance),
                                distance(ev.forward[i - 1].pos,
                                         sim.particles[i].pos))
        /\ sim.main_particle.pos = sim.particles[0].pos
        /\ len(sim.particles) = 1 => sim.particles[0].pos = ev.pre.anchor_pos

\* a chain of three links, no pair coincident, whose first link the
\* backward pass moved off the cursor
C25_Witness ==
    /\ BackwardOnly
    /\ len(sim.particles) = 3
    /\ \A i \in 1..2 : ~CoincidentBackward(i)
    /\ sim.particles[0].pos # ev.mouse
    /\ sim.particles[1].pos # ev.forward[1].pos
    /\ ev.pre.anchor_pos # ChainStart

\* a chain of one link ended on the anchor, away from the cursor
C25_WitnessSingle ==
    /\ BackwardOnly
    /\ len(sim.particles) = 1
    /\ ev.mouse # ev.pre.anchor_pos
    /\ sim.particles[0].pos = ev.pre.anchor_pos

(***************************************************************************)
(* The pair correction in f32 arithmetic, for particles on the x axis.     *)
(* A value is an integer number of units of 2^-26; an addition or a        *)
(* subtraction is the exact sum rounded to 24 significant bits, ties to    *)
(* even, as IEEE 754 binary32 does it.  On the x axis length() is          *)
(* sqrt(x * x + 0 * 0) = |x| and x / len is 1 or -1, both exact, and a     *)
(* division by 2.0 is exact.                                               *)
(***************************************************************************)
\* 1.0 in units
F32One == 67108864

\* 2^24: a significand has 24 bits
F32Significands == 16777216

\* the spacing of the f32 values around the magnitude a, from q upwards
RECURSIVE F32QuantumFrom(_, _)
F32QuantumFrom(a, q) ==
    IF a \div q < F32Significands THEN q ELSE F32QuantumFrom(a, 2 * q)

F32Quantum(a) == F32QuantumFrom(Abs(a), 1)

\* round to nearest f32, ties to the even significand
F32Round(n) ==
    LET a == Abs(n)
        q == F32Quantum(a)
        lo == (a \div q) * q
        rem == a - lo
        up == \/ 2 * rem > q
              \/ (2 * rem = q /\ (a \div q) % 2 = 1)
    IN Sgn(n) * (IF up THEN lo + q ELSE lo)

\* f32 + f32 and f32 - f32
f32_add(a, b) == F32Round(a + b)

f32_sub(a, b) == F32Round(a - b)

\* the pair correction in f32, mutated: the half offset is added to both
sep_pair_f32_same_sign(xs, radius, i, j) ==
    LET to_other == f32_sub(xs[j], xs[i])
        min_dist == f32_add(radius, radius)
    IN IF Abs(to_other) <= min_dist
       THEN LET corrected == Sgn(to_other) * min_dist
                offset == f32_sub(f32_sub(xs[j], xs[i]), corrected)
                half_offset == offset \div 2
            IN [xs |-> [xs EXCEPT ![i] = f32_add(@, half_offset),
                                  ![j] = f32_add(@, half_offset)],
                fired |-> TRUE, offset |-> offset]
       ELSE [xs |-> xs, fired |-> FALSE, offset |-> 0]

\* update, step 3, and the chain's collision pass: the test and correction
\* of the pair (i, j) in f32
sep_pair_f32(xs, radius, i, j) ==
    LET to_other == f32_sub(xs[j], xs[i])
        min_dist == f32_add(radius, radius)
    IN IF Abs(to_other) <= min_dist
       THEN LET corrected == Sgn(to_other) * min_dist
                offset == f32_sub(f32_sub(xs[j], xs[i]), corrected)
                half_offset == offset \div 2
            IN [xs |-> [xs EXCEPT ![i] = f32_add(@, half_offset),
                                  ![j] = f32_sub(@, half_offset)],
                fired |-> TRUE, offset |-> offset]
       ELSE [xs |-> xs, fired |-> FALSE, offset |-> 0]

\* x coordinates: 0, 1, 3, 6, 6 + 2^-21, 7 + 2^-21, 9 + 2^-20
F32Positions ==
    {0, F32One, 3 * F32One, 6 * F32One, 6 * F32One + 32, 7 * F32One + 32,
     9 * F32One + 64}

F32Counts == {2, 3}

InitF32 ==
    /\ \E count \in F32Counts :
         \E xs \in [0..(count - 1) -> F32Positions] :
            sim = [kind |-> "f32", xs |-> xs, radius |-> 5 * F32One]
    /\ hash = NoHash
    /\ nearby = <<>>
    /\ call = NoCall
    /\ ev = NoEv
    /\ steps = 0
    /\ current_scene = NoScene

\* one pair correction, on any pair i < j: the corrections of a round in
\* any order
F32PairStep ==
    /\ steps < MaxSteps
    /\ \E i, j \in DOMAIN sim.xs :
         /\ i < j
         /\ \E r \in {sep_pair_f32(sim.xs, sim.radius, i, j)} :
               /\ r.offset % 2 = 0
               /\ sim' = [sim EXCEPT !.xs = r.xs]
               /\ ev' = [op |-> "pair_f32", i |-> i, j |-> j, pre |-> sim.xs,
                         fired |-> r.fired, half_offset |-> r.offset \div 2]
    /\ steps' = steps + 1
    /\ UNCHANGED <<hash, nearby, call, current_scene>>

NextF32 == F32PairStep

SpecF32 == InitF32 /\ [][NextF32]_vars

\* by how much the sum of the two positions of the last pair changed
F32Drift == (sim.xs[ev.i] - ev.pre[ev.i]) + (sim.xs[ev.j] - ev.pre[ev.j])

\* C28 as stated: every pairwise correction leaves the sum of the positions
\* exactly as it was.
C28_Original ==
    ev.op = "pair_f32" => F32Drift = 0

\* C28: a pairwise correction adds an offset to particle i and subtracts the
\* same offset from particle j, each with one f32 rounding, and leaves every
\* other particle alone; the sum of the positions changes by no more than
\* the two roundings, half a spacing of f32 values at each new position, and
\* not at all when the test fails.
C28_CentroidConservation ==
    ev.op = "pair_f32" =>
        /\ \A k \in DOMAIN sim.xs : k \notin {ev.i, ev.j} => sim.xs[k] = ev.pre[k]
        /\ DOMAIN sim.xs = DOMAIN ev.pre
        /\ ev.fired =>
              /\ sim.xs[ev.i] = F32Round(ev.pre[ev.i] + ev.half_offset)
              /\ sim.xs[ev.j] = F32Round(ev.pre[ev.j] - ev.half_offset)
              /\ 2 * Abs(F32Drift)
                    <= F32Quantum(sim.xs[ev.i]) + F32Quantum(sim.xs[ev.j])
        /\ ~ev.fired => sim.xs = ev.pre

\* 1 and 7 + 2^-21 are corrected to -(1 - 2^-22) and 9: the sum went down
\* by 2^-22
C28_Witness ==
    /\ ev.op = "pair_f32"
    /\ ev.fired
    /\ ev.pre[ev.i] = F32One
    /\ ev.pre[ev.j] = 7 * F32One + 32
    /\ sim.xs[ev.i] = -(F32One - 16)
    /\ sim.xs[ev.j] = 9 * F32One
    /\ F32Drift = -16

\* a correction whose two additions are exact: (0, 6) to (-2, 8)
C28_WitnessExact ==
    /\ ev.op = "pair_f32"
    /\ ev.fired
    /\ ev.pre[ev.i] = 0
    /\ ev.pre[ev.j] = 6 * F32One
    /\ sim.xs[ev.i] = -(2 * F32One)
    /\ sim.xs[ev.j] = 8 * F32One

\* every particle of ps is at the position of particle 0
AllCoincident(ps) == \A i \in DOMAIN ps : ps[i].pos = ps[0].pos

\* the entries of a log whose pair was at one position when it was tested
CoincidentTests(log) == {k \in 1..Len(log) : log[k].pi = log[k].pj}

\* C29: a pair of particles at exactly one position passes the overlap test
\* and is corrected by the zero vector, in step 3 of the separation
\* simulation and in the chain's collision pass alike, so neither particle
\* moves; particles that are all at one position are all still there after
\* every pairwise round and after the collision pass.
C29_CoincidentFixedPoint ==
    ev.op = "pairs" =>
        /\ \A i, j \in DOMAIN ev.start :
              (i < j /\ ev.start[i].pos = ev.start[j].pos)
                 => /\ sep_pair(ev.start, i, j) = [ps |-> ev.start, fired |-> TRUE]
                    /\ chain_collide(ev.start, i, j)
                          = [ps |-> ev.start, fired |-> TRUE]
        /\ \A k \in CoincidentTests(ev.log) :
              /\ ev.log[k].fired
              /\ ev.log[k].qi = ev.log[k].pi
              /\ ev.log[k].qj = ev.log[k].pj
        /\ \A k \in CoincidentTests(ev.chain.log) :
              /\ ev.chain.log[k].fired
              /\ ev.chain.log[k].qi = ev.chain.log[k].pi
              /\ ev.chain.log[k].qj = ev.chain.log[k].pj
        /\ AllCoincident(ev.start)
              => (sim.particles = ev.start /\ ev.chain.ps = ev.start)

\* three particles at one position after a second round: all three pairs
\* were tested and corrected by nothing
C29_Witness ==
    /\ ev.op = "pairs"
    /\ steps = 2
    /\ len(ev.start) = 3
    /\ AllCoincident(ev.start)
    /\ Cardinality(CoincidentTests(ev.log)) = 3
    /\ Cardinality(CoincidentTests(ev.chain.log)) = 3
    /\ sim.particles = ev.start

\* two of three particles at one position and a third that overlaps them:
\* the coincident pair is tested first and stays, then the third moves both
C29_WitnessMixed ==
    /\ ev.op = "pairs"
    /\ len(ev.start) = 3
    /\ ev.start[0].pos = ev.start[1].pos
    /\ ev.start[2].pos # ev.start[0].pos
    /\ CoincidentTests(ev.log) # {}
    /\ sim.particles # ev.start

(***************************************************************************)
(* The three simulations side by side: an instance whose particles got     *)
(* colours from random_color(), and a second instance built from the same  *)
(* parameters with fixed colours, both driven by the same sequence of      *)
(* update and mutator calls.                                               *)
(***************************************************************************)
MaxInstOps == 3

\* `let color = if use_random_colors { random_color() } else { WHITE }`:
\* the particles of a new simulation get the colours drawn for them
use_random_colors(s, colors) ==
    [s EXCEPT !.particles =
        [i \in DOMAIN @ |-> Particle_new(@[i].pos, @[i].radius, colors[i])]]

InstSepCounts == {2, 3}

\* the simulations as their constructors build them with fixed colours
InstNew ==
    {BasicDistance_new(r[1], r[2], ContainStart) : r \in ContainRadii}
    \cup {SeparateCollision_new(count, SepBallRadius, SepMainRadius, SepStart) :
            count \in InstSepCounts}
    \cup {DistanceChain_new(count, ChainBallRadius, ChainLinkDistance, ChainStart) :
            count \in ChainCounts}

InstContainCursors == {add(ContainStart, Vec2(U(60), 0)), add(ContainStart, Vec2(U(7), U(24)))}

InstSepCursors == {Vec2(U(500), U(400)), Vec2(U(503), U(404))}

InstChainCursors == {Vec2(U(60), 0), Vec2(U(10), U(10))}

\* the calls an instance takes: update and the mutators of its type
InstOps(s) ==
    CASE s.kind = "basic" ->
           {[fn |-> "update", arg |-> c] : c \in InstContainCursors}
      [] s.kind = "separate" ->
           {[fn |-> "update", arg |-> c] : c \in InstSepCursors}
           \cup {[fn |-> "set_iterations", arg |-> n] : n \in SepIterations}
      [] s.kind = "chain" ->
           {[fn |-> "update", arg |-> c] : c \in InstChainCursors}
           \cup {[fn |-> "set_fabrik", arg |-> b] : b \in BOOLEAN}
           \cup {[fn |-> "set_ball_collision", arg |-> b] : b \in BOOLEAN}
           \cup {[fn |-> "set_link_distance", arg |-> d] : d \in ChainLinkDistances}
           \cup {[fn |-> "set_anchor_pos", arg |-> a] : a \in ChainAnchors}

\* the call o on the instance s
InstCall(s, o) ==
    CASE o.fn = "update" -> Simulation_update(s, o.arg)
      [] o.fn = "set_iterations" -> set_iterations(s, o.arg)
      [] o.fn = "set_fabrik" -> set_fabrik(s, o.arg)
      [] o.fn = "set_ball_collision" -> set_ball_collision(s, o.arg)
      [] o.fn = "set_link_distance" -> set_link_distance(s, o.arg)
      [] o.fn = "set_anchor_pos" -> set_anchor_pos(s, o.arg)

InitInst ==
    /\ \E s \in InstNew :
         \E colors \in [DOMAIN s.particles -> Palette] :
            /\ sim = use_random_colors(s, colors)
            /\ ev = [op |-> "new", twin |-> s]
    /\ hash = NoHash
    /\ nearby = <<>>
    /\ call = NoCall
    /\ steps = 0
    /\ current_scene = NoScene

InstStep ==
    /\ steps < MaxInstOps
    /\ \E o \in InstOps(sim) :
         \E r \in {[sim |-> InstCall(sim, o), twin |-> InstCall(ev.twin, o)]} :
            /\ sim' = r.sim
            /\ ev' = [op |-> o.fn, arg |-> o.arg, pre |-> sim, twin |-> r.twin]
    /\ steps' = steps + 1
    /\ UNCHANGED <<hash, nearby, call, current_scene>>

NextInst == InstStep

SpecInst == InitInst /\ [][NextInst]_vars

\* the grid of step 3, filled from the particles of s
grid_of(s) == fill(SpatialHash_new(FMul(s.ball_radius, U(2))), s.particles, 0)

\* the key of the cell of a position
key_of(h, pos) ==
    get_cell_key(get_cell_coords(h, pos)[1], get_cell_coords(h, pos)[2])

\* every index stored in the grid is the index of a particle, stored once,
\* in the cell of that particle's position
GridDenotes(s) ==
    \E h \in {grid_of(s)} :
       /\ \A key \in DOMAIN h.cells :
             \A n \in 1..Len(h.cells[key]) :
                /\ h.cells[key][n] \in DOMAIN s.particles
                /\ key_of(h, s.particles[h.cells[key][n]].pos) = key
       /\ \A i \in DOMAIN s.particles :
             Cardinality({kn \in {<<key, n>> : key \in DOMAIN h.cells,
                                                 n \in 1..len(s.particles)} :
                            /\ kn[2] <= Len(h.cells[kn[1]])
                            /\ h.cells[kn[1]][kn[2]] = i}) = 1

\* C23: no update call and no mutator call adds, removes or reorders
\* particles or changes a radius: after every call the sequence has the
\* indices it had before, and every index holds a particle of the radius and
\* colour it held before, as does the main particle; so the indices the grid
\* of the separation simulation holds each denote the particle they were
\* filed for.
C23_IndexStability ==
    ev.op \notin {"new", "none"} =>
        /\ DOMAIN sim.particles = DOMAIN ev.pre.particles
        /\ \A i \in DOMAIN sim.particles :
              /\ sim.particles[i].radius = ev.pre.particles[i].radius
              /\ sim.particles[i].color = ev.pre.particles[i].color
              /\ sim.particles[i].radius = ev.twin.particles[i].radius
        /\ sim.main_particle.radius = ev.pre.main_particle.radius
        /\ sim.main_particle.color = ev.pre.main_particle.color
        /\ sim.kind = "separate" => GridDenotes(sim)

\* an update of the separation simulation moved three particles that do not
\* all have one colour
C23_Witness ==
    /\ ev.op = "update"
    /\ sim.kind = "separate"
    /\ len(sim.particles) = 3
    /\ \A i \in DOMAIN sim.particles : sim.particles[i].pos # ev.pre.particles[i].pos
    /\ sim.particles[0].color # sim.particles[1].color
    /\ sim.particles[1].color # sim.particles[2].color

\* an update of a chain with collisions on moved three links of different
\* colours
C23_WitnessChain ==
    /\ ev.op = "update"
    /\ sim.kind = "chain"
    /\ sim.ball_collision
    /\ len(sim.particles) = 3
    /\ \A i \in DOMAIN sim.particles : sim.particles[i].pos # ev.pre.particles[i].pos
    /\ sim.particles[0].color # sim.particles[1].color

\* the instance s with every particle in WHITE
uncolored(s) ==
    [s EXCEPT !.particles =
        [i \in DOMAIN @ |-> Particle_new(@[i].pos, @[i].radius, WHITE)]]

\* the orders in which `self.cells.values_mut()` can visit the cells
VisitOrders(h) ==
    {order \in [1..Cardinality(DOMAIN h.cells) -> DOMAIN h.cells] :
        \A a, b \in DOMAIN order : a # b => order[a] # order[b]}

\* SpatialHash::clear visiting the cells in the given order, from the k-th
RECURSIVE clear_in_order(_, _, _)
clear_in_order(h, order, k) ==
    IF k > Len(order) THEN h
    ELSE clear_in_order([h EXCEPT !.cells[order[k]] = <<>>], order, k + 1)

\* C30: the positions, and everything but the colours, of an instance with
\* random colours equal those of the instance with fixed colours after the
\* same calls; and for the grid of the separation simulation the order in
\* which the cells are visited when it is cleared makes no difference.
C30_Determinism ==
    sim.kind \in {"basic", "separate", "chain"} =>
        /\ uncolored(sim) = ev.twin
        /\ sim.kind = "separate" =>
              \E h \in {grid_of(sim)} :
                 \A order \in VisitOrders(h) : clear_in_order(h, order, 1) = clear(h)

\* two updates of a separation simulation with colours from random_color():
\* particles moved, the grid has more than one cell to visit
C30_Witness ==
    /\ ev.op = "update"
    /\ sim.kind = "separate"
    /\ steps >= 2
    /\ len(sim.particles) = 3
    /\ \E i \in DOMAIN sim.particles : sim.particles[i].color # WHITE
    /\ sim.particles # ev.pre.particles
    /\ Cardinality(VisitOrders(grid_of(sim))) >= 2

=============================================================================
